---- MODULE Spec2Model ----
(***************************************************************************)
(* Model of the hierarchical map-reduce codebase analysis agent            *)
(* (src/agent.py) and of the estimator / chunker it uses (src/scanner.py). *)
(*                                                                         *)
(* Texts handled by the pipeline are represented by their length in        *)
(* characters: every decision of agent.py about a text (routing, budgets,  *)
(* batching, the pre-flight guard) reads only len(text).  The chunker is   *)
(* additionally run on real character sequences (SpecChunk) so that what   *)
(* it does to the content is checked too.                                  *)
(***************************************************************************)
EXTENDS Integers, Sequences, FiniteSets, TLC

VARIABLES
    \* ---- chunker harness (SpecChunk) ----
    c_text,      \* the text handed to chunk_text, a sequence of characters
    c_budget,    \* chunk_token_size
    c_chunks,    \* the list chunk_text returned
    c_pc,        \* "ready" | "chunked" | "off"
    \* ---- app.py: the process-wide state and the request handlers ----
    sessions,      \* _sessions: a set of [sid, agent, repo_dir], one per key
    sessions_lock, \* _sessions_lock: 0 when free, else the thread holding it
    clone_dirs,    \* the clone directories on disk, one per repository URL
    agents,        \* the CodebaseAnalysisAgent objects constructed so far
    uuids,         \* how many ids uuid.uuid4() has issued
    handlers,      \* per request thread: where its handler stands, its locals
    web_requests,  \* requests received so far
    \* ---- truncate_to_token_limit harness (SpecTruncate) ----
    t_text,       \* the text handed to it: a sequence of characters
    t_max_tokens, \* its limit
    t_notice,     \* its notice: a sequence of characters, <<>> for ""
    t_result,     \* the text it returned
    t_pc,         \* "ready" | "truncated" | "off"
    \* ---- batcher harness (SpecBatch) ----
    b_summaries, \* the list handed to _build_token_aware_batches
    b_batches,   \* the batches it returned
    b_pc,        \* "ready" | "batched" | "off"
    \* ---- CodebaseAnalysisAgent ----
    conversation_history, \* self.conversation_history: list of messages
    project_path,         \* self.project_path: a corpus number, 0 for None
    scan_result,          \* self.scan_result: a corpus number, 0 for None
    \* ---- one call of analyze_project_stream (the generator) ----
    pc,              \* where the generator stands
    project_dir,     \* its argument: a corpus number
    strategy,        \* "none" | "single" | "mapreduce"
    events,          \* the events yielded so far by the current run
    m_chunks,        \* lengths of the chunks of code_contents
    map_futures,     \* one future per chunk
    map_taken,       \* futures already handed out by as_completed
    chunk_summaries, \* results by chunk position
    map_completed,   \* map_completed[0]
    \* ---- the background reduce thread (_run_reduce) ----
    r_pc,            \* where the thread stands
    reduce_round,    \* reduce_round of the current _hierarchical_reduce call
    r_summaries,     \* its `summaries` argument
    r_batches,       \* batches of the current round
    reduce_futures,  \* one future per batch
    reduce_taken,    \* futures already handed out by as_completed
    intermediate,    \* results by batch position
    completed,       \* batches completed in this round
    consolidated,    \* what _hierarchical_reduce returned
    reduce_q,        \* queue from the thread to the generator
    reduce_result,   \* reduce_result[0]: report length, -1 for None
    reduce_error,    \* reduce_error[0]: "None" or the kind of failure
    \* ---- the backend, as seen by _call_llm ----
    requests,        \* requests sent to the backend
    rejected,        \* calls refused by the pre-flight guard
    \* ---- ask ----
    asks,            \* calls of ask so far
    ask_result       \* outcome of the last ask

chunk_vars == <<c_text, c_budget, c_chunks, c_pc>>
batch_vars == <<b_summaries, b_batches, b_pc>>
trunc_vars == <<t_text, t_max_tokens, t_notice, t_result, t_pc>>
web_vars   == <<sessions, sessions_lock, clone_dirs, agents, uuids, handlers,
                web_requests>>
agent_vars == <<conversation_history, project_path, scan_result>>
run_vars   == <<pc, project_dir, strategy, events, m_chunks>>
map_vars   == <<map_futures, map_taken, chunk_summaries, map_completed>>
round_vars == <<reduce_round, r_summaries, r_batches, reduce_futures, reduce_taken,
                intermediate, completed>>
thread_vars == <<r_pc, consolidated, reduce_q, reduce_result, reduce_error>>
llm_vars   == <<requests, rejected>>
ask_vars   == <<asks, ask_result>>

vars == <<c_text, c_budget, c_chunks, c_pc, b_summaries, b_batches, b_pc,
          t_text, t_max_tokens, t_notice, t_result, t_pc,
          sessions, sessions_lock, clone_dirs, agents, uuids, handlers, web_requests,
          conversation_history, project_path, scan_result,
          pc, project_dir, strategy, events, m_chunks,
          map_futures, map_taken, chunk_summaries, map_completed,
          r_pc, reduce_round, r_summaries, r_batches, reduce_futures, reduce_taken,
          intermediate, completed, consolidated, reduce_q, reduce_result,
          reduce_error, requests, rejected, asks, ask_result>>

-----------------------------------------------------------------------------
\* Bounds of the model.


\* requests SpecWeb lets the server receive
MaxWebRequests == 3

\* longest text (in characters), largest limit (in tokens) and longest
\* notice (in characters) given to truncate_to_token_limit in SpecTruncate
MaxTruncLen == 6
MaxTruncTokens == 2
MaxNoticeLen == 2

\* longest text (in characters) given to chunk_text in SpecChunk
MaxTextLen == 7
\* largest chunk_token_size given to chunk_text in SpecChunk
MaxBudget == 2
\* SpecBatch: longest run of equal small summaries in a list
MaxRun == 22
\* SpecBatch: longest freely chosen head and tail around the run
MaxTail == 2
\* Spec: calls of ask on one agent
MaxAsks == 1
\* Spec: reduce rounds after which the model stops following the recursion
MaxRounds == 2

-----------------------------------------------------------------------------
\* Program constants.

CHARS_PER_TOKEN == 3

API_MAX_TOKENS == 1048576
MODEL_CONTEXT_LIMIT == 131072
PROMPT_OVERHEAD_TOKENS == 8000
MAX_PROMPT_TOKENS == MODEL_CONTEXT_LIMIT - PROMPT_OVERHEAD_TOKENS
CHUNK_SAFETY_MARGIN == 8000
REDUCE_TOKEN_BUDGET == 90000
REDUCE_BATCH_MAX == 20
\* max_workers = min(<units>, 8)
MAX_WORKERS == 8
\* max(1_000, ...) floor of dynamic_chunk_budget
MIN_CHUNK_BUDGET == 1000

\* len() of the prompt texts with every {field} rendered as ""
SYSTEM_PROMPT_LEN == 1009
INITIAL_ANALYSIS_PROMPT_LEN == 1249
MAP_CHUNK_PROMPT_LEN == 514
REDUCE_BATCH_PROMPT_LEN == 465
REDUCE_SYNTHESIS_PROMPT_LEN == 1274
\* the compact seed stored after a map-reduce run: user turn without its
\* fields, and the assistant acknowledgement
SEED_USER_LEN == 176
SEED_ASSISTANT_LEN == 146
\* "### Summary " + "\n" around every summary of a batch, and the
\* "\n\n---\n\n" joining them
SUMMARY_HEADER_LEN == 13
SUMMARY_JOIN_LEN == 7

-----------------------------------------------------------------------------
\* Small helpers.

Min(a, b) == IF a <= b THEN a ELSE b
Max(a, b) == IF a >= b THEN a ELSE b

RECURSIVE SumSeq(_)
SumSeq(s) == IF s = <<>> THEN 0 ELSE Head(s) + SumSeq(Tail(s))

RECURSIVE Flatten(_)
Flatten(ss) == IF ss = <<>> THEN <<>> ELSE Head(ss) \o Flatten(Tail(ss))

-----------------------------------------------------------------------------
\* scanner.py: estimator and chunker.

\* estimate_tokens(text) = max(0, len(text) // CHARS_PER_TOKEN), on len(text)
estimate_tokens(n) == Max(0, n \div CHARS_PER_TOKEN)

\* str.splitlines(keepends=True) on the alphabet {a, \n, \r}: the index at
\* which the line starting at i ends ("\r\n" is one line break).
RECURSIVE LineEnd(_, _)
LineEnd(text, i) ==
    IF i >= Len(text) THEN Len(text)
    ELSE IF text[i] = "\n" THEN i
    ELSE IF text[i] = "\r" THEN (IF text[i + 1] = "\n" THEN i + 1 ELSE i)
    ELSE LineEnd(text, i + 1)

RECURSIVE SplitFrom(_, _)
SplitFrom(text, i) ==
    IF i > Len(text) THEN <<>>
    ELSE LET e == LineEnd(text, i)
         IN  <<SubSeq(text, i, e)>> \o SplitFrom(text, e + 1)

splitlines(text) == SplitFrom(text, 1)

\* A piece is a slice line[from..to] (1-based, inclusive) of line number `line`.
Whole(i, line_len) == [line |-> i, from |-> 1, to |-> line_len]

\* for start in range(0, line_len, max_chars): chunks.append(line[start:start+max_chars])
HardSplitMissingTail(i, line_len, max_chars) ==
    [k \in 1..(line_len \div max_chars) |->
        << [line |-> i, from |-> (k - 1) * max_chars + 1, to |-> k * max_chars] >>]

HardSplitWholeLine(i, line_len, max_chars) == << <<Whole(i, line_len)>> >>

HardSplit(i, line_len, max_chars) ==
    [k \in 1..((line_len + max_chars - 1) \div max_chars) |->
        << [line |-> i,
            from |-> (k - 1) * max_chars + 1,
            to   |-> Min(k * max_chars, line_len)] >>]

\* The `for line in lines` loop of chunk_text and the final flush, over the
\* lengths of the lines.  A chunk is the list of the pieces joined into it.
RECURSIVE ChunkLoop(_, _, _, _, _, _)
ChunkLoop(lens, i, max_chars, chunks, current_chunk, current_len) ==
    IF i > Len(lens)
    THEN IF current_chunk # <<>> THEN Append(chunks, current_chunk) ELSE chunks
    ELSE LET line_len == lens[i] IN
         IF line_len > max_chars
         THEN LET flushed == IF current_chunk # <<>>
                             THEN Append(chunks, current_chunk) ELSE chunks
              IN  ChunkLoop(lens, i + 1, max_chars,
                            flushed \o HardSplit(i, line_len, max_chars), <<>>, 0)
         ELSE IF current_len + line_len > max_chars
         THEN ChunkLoop(lens, i + 1, max_chars,
                        Append(chunks, current_chunk), <<Whole(i, line_len)>>, line_len)
         ELSE ChunkLoop(lens, i + 1, max_chars,
                        chunks, Append(current_chunk, Whole(i, line_len)),
                        current_len + line_len)

\* chunk_text on the line lengths of the text: the early return gives the
\* whole text as one chunk, otherwise the loop runs.
ChunkPieces(lens, chunk_token_size) ==
    LET max_chars == chunk_token_size * CHARS_PER_TOKEN IN
    IF SumSeq(lens) <= max_chars
    THEN << [i \in 1..Len(lens) |-> Whole(i, lens[i])] >>
    ELSE ChunkLoop(lens, 1, max_chars, <<>>, <<>>, 0)

\* "".join of the pieces of one chunk, taken from the lines of the text
RECURSIVE JoinPieces(_, _)
JoinPieces(lines, pieces) ==
    IF pieces = <<>> THEN <<>>
    ELSE SubSeq(lines[Head(pieces).line], Head(pieces).from, Head(pieces).to)
            \o JoinPieces(lines, Tail(pieces))

\* chunk_text(text, chunk_token_size) on a sequence of characters
chunk_text(text, chunk_token_size) ==
    LET lines  == splitlines(text)
        lens   == [i \in 1..Len(lines) |-> Len(lines[i])]
        pieces == ChunkPieces(lens, chunk_token_size)
    IN  [k \in 1..Len(pieces) |-> JoinPieces(lines, pieces[k])]

\* the length of each chunk chunk_text returns for a text with these lines
PieceLen(p) == p.to - p.from + 1
chunk_lens(lens, chunk_token_size) ==
    LET pieces == ChunkPieces(lens, chunk_token_size)
    IN  [k \in 1..Len(pieces) |->
            SumSeq([j \in 1..Len(pieces[k]) |-> PieceLen(pieces[k][j])])]

\* truncate_to_token_limit(text, max_tokens, notice): text[:max_chars], and
\* "\n" + notice appended when the notice is not empty
truncate_to_token_limit(text, max_tokens, notice) ==
    LET max_chars == max_tokens * CHARS_PER_TOKEN IN
    IF Len(text) <= max_chars
    THEN text
    ELSE LET truncated == SubSeq(text, 1, max_chars) IN
         IF notice # <<>> THEN truncated \o <<"\n">> \o notice ELSE truncated

-----------------------------------------------------------------------------
\* agent.py: the batcher.
\* A summary is [len: its length in characters, gen: 0 for a chunk summary,
\* r for the output of reduce round r, src: the chunks it summarises].

\* overhead / available of _build_token_aware_batches
reduce_overhead ==
    estimate_tokens(SYSTEM_PROMPT_LEN) + estimate_tokens(REDUCE_BATCH_PROMPT_LEN + 0 + 0 + 0)
reduce_available == REDUCE_TOKEN_BUDGET - reduce_overhead

\* the condition under which the current batch is closed before `summary`
CloseBatchNoCap(current_batch, current_tokens, s_tokens) ==
    /\ current_batch # <<>>
    /\ current_tokens + s_tokens > reduce_available

CloseBatch(current_batch, current_tokens, s_tokens) ==
    /\ current_batch # <<>>
    /\ \/ current_tokens + s_tokens > reduce_available
       \/ Len(current_batch) >= REDUCE_BATCH_MAX

\* `if current_batch: batches.append(current_batch)` after the loop
final_flush_dropped(batches, current_batch) == batches

final_flush(batches, current_batch) ==
    IF current_batch # <<>> THEN Append(batches, current_batch) ELSE batches

\* the `for summary in summaries` loop and the final flush
RECURSIVE BatchLoop(_, _, _, _, _)
BatchLoop(summaries, i, batches, current_batch, current_tokens) ==
    IF i > Len(summaries)
    THEN final_flush(batches, current_batch)
    ELSE LET summary  == summaries[i]
             s_tokens == estimate_tokens(summary.len)
         IN  IF CloseBatch(current_batch, current_tokens, s_tokens)
             THEN BatchLoop(summaries, i + 1, Append(batches, current_batch),
                            <<summary>>, s_tokens)
             ELSE BatchLoop(summaries, i + 1, batches,
                            Append(current_batch, summary), current_tokens + s_tokens)

build_token_aware_batches(summaries) == BatchLoop(summaries, 1, <<>>, <<>>, 0)

\* sum(estimate_tokens(s) for s in batch)
BatchTokens(batch) ==
    SumSeq([j \in 1..Len(batch) |-> estimate_tokens(batch[j].len)])

-----------------------------------------------------------------------------
\* agent.py: prompts, the pre-flight guard, routing and budgets.

\* The projects the agent is run on: [valid: project_dir is a directory,
\* path / tree: len of project_path and of directory_tree, lines: len of
\* each line of code_contents].
\*   1  not a directory: scan_project raises
\*   2  a full prompt of 50,000 tokens
\*   3  a full prompt of exactly MAX_PROMPT_TOKENS tokens
\*   4  one token more: map-reduce, the corpus is a single chunk
\*   5  two lines that do not fit one chunk together
\*   6  a directory tree of 90,000 tokens, two chunks
\*   7  a full prompt of 500,000 tokens, most of it the directory tree
\*   8  three lines, each a chunk of its own
\*   9  one line longer than a chunk: hard-split, the first piece has
\*      exactly the size of the budget
\*  10  PoolUnits lines, each a chunk of its own: more units than workers
\* chunks of the project SpecPool runs: one more than the pool has workers
PoolUnits == MAX_WORKERS + 1

Corpora ==
    << [valid |-> FALSE, path |-> 30, tree |-> 0,      lines |-> <<>>],
       [valid |-> TRUE,  path |-> 30, tree |-> 600,    lines |-> <<147113>>],
       [valid |-> TRUE,  path |-> 30, tree |-> 600,    lines |-> <<366331>>],
       [valid |-> TRUE,  path |-> 30, tree |-> 600,    lines |-> <<366332>>],
       [valid |-> TRUE,  path |-> 30, tree |-> 600,    lines |-> <<200000, 200000>>],
       [valid |-> TRUE,  path |-> 30, tree |-> 270000, lines |-> <<90000, 90000>>],
       [valid |-> TRUE,  path |-> 30, tree |-> 1494713, lines |-> <<1500, 1500>>],
       [valid |-> TRUE,  path |-> 30, tree |-> 600,    lines |-> <<200000, 200000, 200000>>],
       [valid |-> TRUE,  path |-> 30, tree |-> 600,    lines |-> <<400000>>],
       [valid |-> TRUE,  path |-> 30, tree |-> 600,
        lines |-> [i \in 1..PoolUnits |-> 200000]] >>

\* the last project has more chunks than the pool has workers: it is run
\* by SpecPool, the others by Spec
PoolCorpus == Len(Corpora)
CorpusIds == 1..(Len(Corpora) - 1)

\* lengths of the texts the backend returns (300: a short summary, 135000:
\* a summary of 45,000 tokens, two of which exceed the reduce budget)
RespLens == {300, 135000}
\* lengths of the reports the backend returns (0: message.content is "")
ReportLens == {0, 900}
\* lengths of the questions given to ask, and of its answers
QuestionLens == {60, 400000}
AnswerLens == {300}

\* len(str(n))
RECURSIVE Digits(_)
Digits(n) == IF n < 10 THEN 1 ELSE 1 + Digits(n \div 10)

Msg(role, kind, len) == [role |-> role, kind |-> kind, len |-> len]
SystemMsg == Msg("system", "system_prompt", SYSTEM_PROMPT_LEN)

\* len(INITIAL_ANALYSIS_PROMPT.format(...))
full_user_prompt_len(c) ==
    INITIAL_ANALYSIS_PROMPT_LEN + Corpora[c].path + Corpora[c].tree
        + SumSeq(Corpora[c].lines)

\* total_tokens = system_tokens + user_tokens
total_tokens_code_only(c) == estimate_tokens(SumSeq(Corpora[c].lines))

total_tokens(c) ==
    estimate_tokens(SYSTEM_PROMPT_LEN) + estimate_tokens(full_user_prompt_len(c))

\* if total_tokens <= MAX_PROMPT_TOKENS
single_call_route_api_limit(total) == total <= API_MAX_TOKENS - PROMPT_OVERHEAD_TOKENS

single_call_route(total) == total <= MAX_PROMPT_TOKENS

\* map_prompt_overhead and dynamic_chunk_budget
map_prompt_overhead(c) ==
    estimate_tokens(SYSTEM_PROMPT_LEN)
        + estimate_tokens(MAP_CHUNK_PROMPT_LEN + Digits(1) + Digits(1)
                          + Corpora[c].path + Corpora[c].tree + 0)

dynamic_chunk_budget_no_overhead(c) ==
    Max(MIN_CHUNK_BUDGET, MODEL_CONTEXT_LIMIT - CHUNK_SAFETY_MARGIN)

dynamic_chunk_budget(c) ==
    Max(MIN_CHUNK_BUDGET,
        MODEL_CONTEXT_LIMIT - map_prompt_overhead(c) - CHUNK_SAFETY_MARGIN)

\* len of the prompt _map_chunk builds
map_prompt_len(c, chunk_index, total_chunks, chunk_len) ==
    MAP_CHUNK_PROMPT_LEN + Digits(chunk_index) + Digits(total_chunks)
        + Corpora[c].path + Corpora[c].tree + chunk_len

\* len of `combined` and of the prompt _reduce_batch builds
reduce_combined_len(batch) ==
    SumSeq([j \in 1..Len(batch) |-> SUMMARY_HEADER_LEN + Digits(j) + batch[j].len])
        + SUMMARY_JOIN_LEN * (Len(batch) - 1)

reduce_prompt_len(c, batch) ==
    REDUCE_BATCH_PROMPT_LEN + Corpora[c].path + Corpora[c].tree
        + reduce_combined_len(batch)

\* len of the prompt _final_synthesis builds
synthesis_prompt_len(c, consolidated_summary, total_original_chunks) ==
    REDUCE_SYNTHESIS_PROMPT_LEN + Digits(total_original_chunks)
        + Corpora[c].path + Corpora[c].tree + consolidated_summary.len

\* the user turn of the compact seed stored after a map-reduce run
seed_user_len(c, report) == SEED_USER_LEN + Corpora[c].path + Corpora[c].tree + report

\* _call_llm: estimate_tokens(" ".join(m["content"] for m in messages))
preflight_estimate(lens) ==
    estimate_tokens(SumSeq(lens) + (IF Len(lens) > 0 THEN Len(lens) - 1 ELSE 0))

\* _call_llm: if estimated > MODEL_CONTEXT_LIMIT: raise
payload_too_large_api_limit(estimated) == estimated > API_MAX_TOKENS

payload_too_large(estimated) == estimated > MODEL_CONTEXT_LIMIT

\* the two-message list [system, user prompt] every pipeline stage sends
StageEstimate(prompt_len) == preflight_estimate(<<SYSTEM_PROMPT_LEN, prompt_len>>)
HistoryEstimate(history) == preflight_estimate([i \in 1..Len(history) |-> history[i].len])

\* a call of _call_llm: which stage made it, for which unit, how large
Call(kind, round, unit, est) ==
    [kind |-> kind, round |-> round, unit |-> unit, est |-> est]

\* client.chat.completions.create(...): one more request reaches the
\* backend; a request made again for a unit that already made one is kept
\* apart, as a "repeat" of it
send_request(reqs, call) ==
    IF call \in reqs THEN reqs \cup {[call EXCEPT !.kind = "repeat"]}
    ELSE reqs \cup {call}

\* progress events; n / total are chunk / total for "mapping" and
\* batch / total_batches for "reducing"; extra is total_chunks for
\* "chunking", total_summaries for a round start, the report for "report"
Event(stage, n, total, round, extra, err) ==
    [stage |-> stage, n |-> n, total |-> total, round |-> round,
     extra |-> extra, err |-> err]
\* f"[-] Analysis failed: {exc}": the message carries the text of the
\* exception (err) and no chunk or batch number (n = 0)
ErrorEvent(err) == Event("error", 0, 0, 0, 0, err)
ReportEvent(report) == Event("report", 0, 0, 0, report, "")
Sentinel == Event("None", 0, 0, 0, 0, "")

\* "" in a result list, and a future: pending (submitted), running (its
\* worker is in the backend call), done, failed
NoSummary == [len |-> 0, gen |-> -1, src |-> {}]
Future(st, res, err) == [st |-> st, res |-> res, err |-> err]
Pending == Future("pending", NoSummary, "")
Finished(f) == f.st \in {"done", "failed"}
\* future.result() raises the exception of a failed task
result_raises_swallowed(f) == FALSE

result_raises(f) == f.st = "failed"

\* max_workers = min(total_chunks, 8) / min(total_batches, 8)
max_workers_unbounded(units) == units

max_workers(units) == Min(units, MAX_WORKERS)

\* the tasks a worker thread is running: their backend call is in flight
InFlight(futures) == {i \in 1..Len(futures) : futures[i].st = "running"}

\* ThreadPoolExecutor: tasks leave the work queue in submission order, and
\* at most max_workers = min(units, 8) of them run at a time
NextToStartRerun(futures) ==
    {i \in 1..Len(futures) : futures[i].st \in {"pending", "running"}}

NextToStart(futures) ==
    {i \in 1..Len(futures) :
        /\ futures[i].st = "pending"
        /\ \A j \in 1..(i - 1) : futures[j].st # "pending"
        /\ Cardinality(InFlight(futures)) < max_workers(Len(futures))}

\* shutdown(wait=True) at the end of the `with` block returns when no task
\* is queued or running any more
AllFinished(futures) == \A i \in 1..Len(futures) : Finished(futures[i])

\* idx, summary = future.result(); chunk_summaries[idx] = summary (and
\* intermediate[idx] = result): the result goes to the position of its unit
store_result_by_arrival(results, idx, summary) ==
    LET k == CHOOSE j \in 1..Len(results) :
                /\ results[j] = NoSummary
                /\ \A h \in 1..(j - 1) : results[h] # NoSummary
    IN  [results EXCEPT ![k] = summary]

store_result(results, idx, summary) == [results EXCEPT ![idx] = summary]

\* the `for future in as_completed(futures)` loop ends when every future
\* has been handed out
as_completed_exhausted_early(futures, taken) == taken # {}

as_completed_exhausted(futures, taken) == taken = 1..Len(futures)

\* map_completed[0] += 1 / completed += 1: the counter an event carries is
\* the number of units collected so far, not the number of the unit
progress_counter_unit_index(completed_before, idx) == idx

progress_counter(completed_before, idx) == completed_before + 1

\* reduce_q.get() blocks while the queue is empty and returns as soon as
\* it holds an item
reduce_q_get_ready_at_end(q) == q # <<>> /\ q[Len(q)] = Sentinel

reduce_q_get_ready(q) == q # <<>>

\* event = reduce_q.get(): the oldest item of the queue
reduce_q_get_newest(q) == q[Len(q)]

reduce_q_get(q) == Head(q)

-----------------------------------------------------------------------------
\* agent.py: analyze_project_stream, single-call path.

FreshLocals ==
    /\ map_futures' = <<>>
    /\ map_taken' = {}
    /\ chunk_summaries' = <<>>
    /\ map_completed' = 0
    /\ r_pc' = "off"
    /\ reduce_round' = 0
    /\ r_summaries' = <<>>
    /\ r_batches' = <<>>
    /\ reduce_futures' = <<>>
    /\ reduce_taken' = {}
    /\ intermediate' = <<>>
    /\ completed' = 0
    /\ consolidated' = NoSummary
    /\ reduce_q' = <<>>
    /\ reduce_result' = -1
    /\ reduce_error' = "None"

\* The call up to its first yield: scan, estimate, route, and on the
\* map-reduce path compute the budget and chunk the corpus.
StartRun(c) ==
    /\ pc = "idle"
    /\ project_dir' = c
    /\ FreshLocals
    /\ IF ~Corpora[c].valid
       THEN \* scan_project raises: except Exception -> yield error
            /\ events' = <<ErrorEvent("scan")>>
            /\ pc' = "done"
            /\ strategy' = "none"
            /\ m_chunks' = <<>>
            /\ UNCHANGED <<scan_result, project_path>>
       ELSE /\ scan_result' = c
            /\ project_path' = c
            /\ IF single_call_route(total_tokens(c))
               THEN /\ strategy' = "single"
                    /\ events' = <<Event("chunking", 0, 0, 0, 1, "")>>
                    /\ m_chunks' = <<>>
                    /\ pc' = "s_chunking"
               ELSE /\ strategy' = "mapreduce"
                    /\ m_chunks' = chunk_lens(Corpora[c].lines, dynamic_chunk_budget(c))
                    /\ events' = <<Event("chunking", 0, 0, 0, Len(m_chunks'), "")>>
                    /\ pc' = "m_chunking"
    /\ UNCHANGED <<conversation_history, llm_vars, ask_vars, chunk_vars, batch_vars, trunc_vars, web_vars>>


\* yield ev: the consumer receives the events in the order they are yielded
YieldInFront(ev) == events' = <<ev>> \o events

Yield(ev) == events' = Append(events, ev)

\* self.conversation_history = [system, user]; yield the "mapping" event
SingleSetHistory ==
    /\ pc = "s_chunking"
    /\ conversation_history' =
          <<SystemMsg, Msg("user", "analysis_prompt", full_user_prompt_len(project_dir))>>
    /\ Yield(Event("mapping", 1, 1, 0, 0, ""))
    /\ pc' = "s_mapping"
    /\ UNCHANGED <<project_path, scan_result, project_dir, strategy, m_chunks,
                   map_vars, round_vars, thread_vars, llm_vars, ask_vars,
                   chunk_vars, batch_vars, trunc_vars, web_vars>>

\* report = self._call_llm(self.conversation_history): the pre-flight guard
SingleSend ==
    /\ pc = "s_mapping"
    /\ LET est == HistoryEstimate(conversation_history) IN
       IF payload_too_large(est)
       THEN /\ rejected' = rejected \cup {Call("single", 0, 1, est)}
            /\ Yield(ErrorEvent("too_large"))
            /\ pc' = "done"
            /\ UNCHANGED requests
       ELSE /\ requests' = send_request(requests, Call("single", 0, 1, est))
            /\ pc' = "s_wait"
            /\ UNCHANGED <<rejected, events>>
    /\ UNCHANGED <<agent_vars, project_dir, strategy, m_chunks,
                   map_vars, round_vars, thread_vars, ask_vars, chunk_vars, batch_vars, trunc_vars, web_vars>>

\* the backend answers: append the report and yield it
SingleReturnOk(len) ==
    /\ pc = "s_wait"
    /\ conversation_history' =
          Append(conversation_history, Msg("assistant", "report", len))
    /\ Yield(ReportEvent(len))
    /\ pc' = "done"
    /\ UNCHANGED <<project_path, scan_result, project_dir, strategy, m_chunks,
                   map_vars, round_vars, thread_vars, llm_vars, ask_vars,
                   chunk_vars, batch_vars, trunc_vars, web_vars>>

\* the backend fails: _call_llm raises, the generator yields the error
SingleReturnFail ==
    /\ pc = "s_wait"
    /\ Yield(ErrorEvent("backend"))
    /\ pc' = "done"
    /\ UNCHANGED <<agent_vars, project_dir, strategy, m_chunks,
                   map_vars, round_vars, thread_vars, llm_vars, ask_vars,
                   chunk_vars, batch_vars, trunc_vars, web_vars>>

-----------------------------------------------------------------------------
\* agent.py: analyze_project_stream, map stage.

\* yield the announcing "mapping" event, then submit one task per chunk
MapLaunch ==
    /\ pc = "m_chunking"
    /\ Yield(Event("mapping", 0, Len(m_chunks), 0, 0, ""))
    /\ map_futures' = [i \in 1..Len(m_chunks) |-> Pending]
    /\ chunk_summaries' = [i \in 1..Len(m_chunks) |-> NoSummary]
    /\ map_completed' = 0
    /\ map_taken' = {}
    /\ pc' = "m_mapping"
    /\ UNCHANGED <<agent_vars, project_dir, strategy, m_chunks,
                   round_vars, thread_vars, llm_vars, ask_vars, chunk_vars, batch_vars, trunc_vars, web_vars>>

\* a worker takes _map_task(i): _map_chunk builds the prompt, _call_llm
\* checks it and sends it
MapWorkerStart(i) ==
    /\ pc \in {"m_mapping", "m_abort"}
    /\ i \in NextToStart(map_futures)
    /\ LET est == StageEstimate(
                     map_prompt_len(project_dir, i, Len(m_chunks), m_chunks[i])) IN
       IF payload_too_large(est)
       THEN /\ rejected' = rejected \cup {Call("map", 0, i, est)}
            /\ map_futures' =
                  [map_futures EXCEPT ![i] = Future("failed", NoSummary, "too_large")]
            /\ UNCHANGED requests
       ELSE /\ requests' = send_request(requests, Call("map", 0, i, est))
            /\ map_futures' = [map_futures EXCEPT ![i].st = "running"]
            /\ UNCHANGED rejected
    /\ UNCHANGED <<agent_vars, run_vars, map_taken, chunk_summaries, map_completed,
                   round_vars, thread_vars, ask_vars, chunk_vars, batch_vars, trunc_vars, web_vars>>

MapWorkerOk(i, len) ==
    /\ i \in 1..Len(map_futures)
    /\ map_futures[i].st = "running"
    /\ map_futures' = [map_futures EXCEPT
          ![i] = Future("done", [len |-> len, gen |-> 0, src |-> {i}], "")]
    /\ UNCHANGED <<agent_vars, run_vars, map_taken, chunk_summaries, map_completed,
                   round_vars, thread_vars, llm_vars, ask_vars, chunk_vars, batch_vars, trunc_vars, web_vars>>

MapWorkerFail(i) ==
    /\ i \in 1..Len(map_futures)
    /\ map_futures[i].st = "running"
    /\ map_futures' = [map_futures EXCEPT ![i] = Future("failed", NoSummary, "backend")]
    /\ UNCHANGED <<agent_vars, run_vars, map_taken, chunk_summaries, map_completed,
                   round_vars, thread_vars, llm_vars, ask_vars, chunk_vars, batch_vars, trunc_vars, web_vars>>

\* one turn of `for future in as_completed(futures)`: future.result()
\* either raises, which leaves the loop for the end of the `with` block, or
\* the summary is stored at its chunk's position and an event is yielded
MapCollect(i) ==
    /\ pc = "m_mapping"
    /\ i \in (1..Len(map_futures)) \ map_taken
    /\ Finished(map_futures[i])
    /\ map_taken' = map_taken \cup {i}
    /\ IF result_raises(map_futures[i])
       THEN /\ pc' = "m_abort"
            /\ UNCHANGED <<chunk_summaries, map_completed, events>>
       ELSE /\ chunk_summaries' = store_result(chunk_summaries, i, map_futures[i].res)
            /\ map_completed' = progress_counter(map_completed, i)
            /\ Yield(Event("mapping", map_completed', Len(m_chunks), 0, 0, ""))
            /\ UNCHANGED pc
    /\ UNCHANGED <<agent_vars, project_dir, strategy, m_chunks, map_futures,
                   round_vars, thread_vars, llm_vars, ask_vars, chunk_vars, batch_vars, trunc_vars, web_vars>>

\* the exception leaves the `with` block once every task has finished, and
\* `except Exception` yields the error event
MapRaised ==
    CHOOSE e \in {map_futures[i].err : i \in {j \in map_taken : map_futures[j].st = "failed"}} : TRUE

MapAbortDone ==
    /\ pc = "m_abort"
    /\ AllFinished(map_futures)
    /\ Yield(ErrorEvent(MapRaised))
    /\ pc' = "done"
    /\ UNCHANGED <<agent_vars, project_dir, strategy, m_chunks,
                   map_vars, round_vars, thread_vars, llm_vars, ask_vars,
                   chunk_vars, batch_vars, trunc_vars, web_vars>>

\* the loop is over: reduce_thread.start()
StartReduceThread ==
    /\ pc = "m_mapping"
    /\ as_completed_exhausted(map_futures, map_taken)
    /\ pc' = "relay"
    /\ r_pc' = "enter"
    /\ r_summaries' = chunk_summaries
    /\ reduce_round' = 1
    /\ UNCHANGED <<agent_vars, project_dir, strategy, events, m_chunks, map_vars,
                   r_batches, reduce_futures, reduce_taken, intermediate, completed,
                   consolidated, reduce_q, reduce_result, reduce_error,
                   llm_vars, ask_vars, chunk_vars, batch_vars, trunc_vars, web_vars>>


-----------------------------------------------------------------------------
\* agent.py: _run_reduce, the background thread: _hierarchical_reduce, then
\* _final_synthesis, then the sentinel.

\* if len(summaries) == 1: return summaries[0]
reduce_base_case_never(summaries) == Len(summaries) = 0

reduce_base_case(summaries) == Len(summaries) = 1

\* except Exception / finally of _run_reduce: what goes on the queue
reduce_finally_emit_error(q, err) ==
    IF err = "None" THEN Append(q, Sentinel) ELSE q \o <<ErrorEvent(err), Sentinel>>

reduce_finally_no_sentinel_on_error(q, err) ==
    IF err = "None" THEN Append(q, Sentinel) ELSE q

reduce_finally(q, err) == Append(q, Sentinel)

\* if len(intermediate) > 1: return self._hierarchical_reduce(...)
reduce_recurses_never(results) == FALSE

reduce_recurses(results) == Len(results) > 1

\* entry of _hierarchical_reduce up to the submission of the round's tasks
ReduceEnter ==
    /\ r_pc = "enter"
    /\ IF reduce_base_case(r_summaries)
       THEN /\ consolidated' = r_summaries[1]
            /\ r_pc' = "synth"
            /\ UNCHANGED <<round_vars, reduce_q>>
       ELSE /\ r_batches' = build_token_aware_batches(r_summaries)
            /\ reduce_q' = Append(reduce_q,
                  Event("reducing", 0, Len(r_batches'), reduce_round, Len(r_summaries), ""))
            /\ intermediate' = [i \in 1..Len(r_batches') |-> NoSummary]
            /\ reduce_futures' = [i \in 1..Len(r_batches') |-> Pending]
            /\ reduce_taken' = {}
            /\ completed' = 0
            /\ r_pc' = "round"
            /\ UNCHANGED <<reduce_round, r_summaries, consolidated>>
    /\ UNCHANGED <<agent_vars, run_vars, map_vars, reduce_result, reduce_error,
                   llm_vars, ask_vars, chunk_vars, batch_vars, trunc_vars, web_vars>>

\* a worker takes _batch_task(i): _reduce_batch builds the prompt, _call_llm
\* checks it and sends it
ReduceWorkerStart(i) ==
    /\ r_pc \in {"round", "r_abort"}
    /\ i \in NextToStart(reduce_futures)
    /\ LET est == StageEstimate(reduce_prompt_len(project_dir, r_batches[i])) IN
       IF payload_too_large(est)
       THEN /\ rejected' = rejected \cup {Call("reduce", reduce_round, i, est)}
            /\ reduce_futures' =
                  [reduce_futures EXCEPT ![i] = Future("failed", NoSummary, "too_large")]
            /\ UNCHANGED requests
       ELSE /\ requests' = send_request(requests, Call("reduce", reduce_round, i, est))
            /\ reduce_futures' = [reduce_futures EXCEPT ![i].st = "running"]
            /\ UNCHANGED rejected
    /\ UNCHANGED <<agent_vars, run_vars, map_vars, reduce_round, r_summaries, r_batches,
                   reduce_taken, intermediate, completed, thread_vars, ask_vars,
                   chunk_vars, batch_vars, trunc_vars, web_vars>>

BatchSources(batch) == UNION {batch[j].src : j \in 1..Len(batch)}

ReduceWorkerOk(i, len) ==
    /\ i \in 1..Len(reduce_futures)
    /\ reduce_futures[i].st = "running"
    /\ reduce_futures' = [reduce_futures EXCEPT
          ![i] = Future("done", [len |-> len, gen |-> reduce_round,
                                 src |-> BatchSources(r_batches[i])], "")]
    /\ UNCHANGED <<agent_vars, run_vars, map_vars, reduce_round, r_summaries, r_batches,
                   reduce_taken, intermediate, completed, thread_vars, llm_vars,
                   ask_vars, chunk_vars, batch_vars, trunc_vars, web_vars>>

ReduceWorkerFail(i) ==
    /\ i \in 1..Len(reduce_futures)
    /\ reduce_futures[i].st = "running"
    /\ reduce_futures' =
          [reduce_futures EXCEPT ![i] = Future("failed", NoSummary, "backend")]
    /\ UNCHANGED <<agent_vars, run_vars, map_vars, reduce_round, r_summaries, r_batches,
                   reduce_taken, intermediate, completed, thread_vars, llm_vars,
                   ask_vars, chunk_vars, batch_vars, trunc_vars, web_vars>>

\* one turn of `for future in as_completed(futures)` of the round
ReduceCollect(i) ==
    /\ r_pc = "round"
    /\ i \in (1..Len(reduce_futures)) \ reduce_taken
    /\ Finished(reduce_futures[i])
    /\ reduce_taken' = reduce_taken \cup {i}
    /\ IF result_raises(reduce_futures[i])
       THEN /\ r_pc' = "r_abort"
            /\ UNCHANGED <<intermediate, completed, reduce_q>>
       ELSE /\ intermediate' = store_result(intermediate, i, reduce_futures[i].res)
            /\ completed' = progress_counter(completed, i)
            /\ reduce_q' = Append(reduce_q,
                  Event("reducing", completed', Len(r_batches), reduce_round, 0, ""))
            /\ UNCHANGED r_pc
    /\ UNCHANGED <<agent_vars, run_vars, map_vars, reduce_round, r_summaries, r_batches,
                   reduce_futures, consolidated, reduce_result, reduce_error,
                   llm_vars, ask_vars, chunk_vars, batch_vars, trunc_vars, web_vars>>

ReduceRaised ==
    CHOOSE e \in {reduce_futures[i].err :
                    i \in {j \in reduce_taken : reduce_futures[j].st = "failed"}} : TRUE

\* the exception leaves the `with` block once every task of the round has
\* finished, and reaches `except Exception` of _run_reduce
ReduceAbortDone ==
    /\ r_pc = "r_abort"
    /\ AllFinished(reduce_futures)
    /\ reduce_error' = ReduceRaised
    /\ reduce_q' = reduce_finally(reduce_q, ReduceRaised)
    /\ r_pc' = "done"
    /\ UNCHANGED <<agent_vars, run_vars, map_vars, round_vars, consolidated,
                   reduce_result, llm_vars, ask_vars, chunk_vars, batch_vars, trunc_vars, web_vars>>

\* the round is complete: recurse on the intermediate summaries, or return
\* the only one
ReduceRecurse ==
    /\ r_pc = "round"
    /\ as_completed_exhausted(reduce_futures, reduce_taken)
    /\ reduce_recurses(intermediate)
    /\ reduce_round < MaxRounds
    /\ r_summaries' = intermediate
    /\ reduce_round' = reduce_round + 1
    /\ r_pc' = "enter"
    /\ UNCHANGED <<agent_vars, run_vars, map_vars, r_batches, reduce_futures,
                   reduce_taken, intermediate, completed, consolidated, reduce_q,
                   reduce_result, reduce_error, llm_vars, ask_vars,
                   chunk_vars, batch_vars, trunc_vars, web_vars>>

ReduceReturn ==
    /\ r_pc = "round"
    /\ as_completed_exhausted(reduce_futures, reduce_taken)
    /\ ~reduce_recurses(intermediate)
    /\ consolidated' = intermediate[1]
    /\ r_pc' = "synth"
    /\ UNCHANGED <<agent_vars, run_vars, map_vars, round_vars, reduce_q,
                   reduce_result, reduce_error, llm_vars, ask_vars,
                   chunk_vars, batch_vars, trunc_vars, web_vars>>

\* _final_synthesis: the prompt, the pre-flight guard
SynthSend ==
    /\ r_pc = "synth"
    /\ LET est == StageEstimate(
                     synthesis_prompt_len(project_dir, consolidated, Len(m_chunks))) IN
       IF payload_too_large(est)
       THEN /\ rejected' = rejected \cup {Call("synthesis", 0, 1, est)}
            /\ reduce_error' = "too_large"
            /\ reduce_q' = reduce_finally(reduce_q, "too_large")
            /\ r_pc' = "done"
            /\ UNCHANGED requests
       ELSE /\ requests' = send_request(requests, Call("synthesis", 0, 1, est))
            /\ r_pc' = "synth_wait"
            /\ UNCHANGED <<rejected, reduce_error, reduce_q>>
    /\ UNCHANGED <<agent_vars, run_vars, map_vars, round_vars, consolidated,
                   reduce_result, ask_vars, chunk_vars, batch_vars, trunc_vars, web_vars>>

SynthOk(len) ==
    /\ r_pc = "synth_wait"
    /\ reduce_result' = len
    /\ reduce_q' = reduce_finally(reduce_q, "None")
    /\ r_pc' = "done"
    /\ UNCHANGED <<agent_vars, run_vars, map_vars, round_vars, consolidated,
                   reduce_error, llm_vars, ask_vars, chunk_vars, batch_vars, trunc_vars, web_vars>>

SynthFail ==
    /\ r_pc = "synth_wait"
    /\ reduce_error' = "backend"
    /\ reduce_q' = reduce_finally(reduce_q, "backend")
    /\ r_pc' = "done"
    /\ UNCHANGED <<agent_vars, run_vars, map_vars, round_vars, consolidated,
                   reduce_result, llm_vars, ask_vars, chunk_vars, batch_vars, trunc_vars, web_vars>>

-----------------------------------------------------------------------------
\* agent.py: analyze_project_stream, the relay loop and the end of the run.

\* event = reduce_q.get(); an event is yielded
RelayEvent ==
    /\ pc = "relay"
    /\ reduce_q_get_ready(reduce_q)
    /\ reduce_q_get(reduce_q) # Sentinel
    /\ Yield(reduce_q_get(reduce_q))
    /\ reduce_q' = Tail(reduce_q)
    /\ UNCHANGED <<agent_vars, pc, project_dir, strategy, m_chunks, map_vars,
                   round_vars, r_pc, consolidated, reduce_result, reduce_error,
                   llm_vars, ask_vars, chunk_vars, batch_vars, trunc_vars, web_vars>>

\* self.conversation_history = [system, seed user turn, acknowledgement]
compact_seed_two_turn(c, report) ==
    <<Msg("user", "seed", seed_user_len(c, report)),
      Msg("assistant", "seed_ack", SEED_ASSISTANT_LEN)>>

compact_seed(c, report) ==
    <<SystemMsg,
      Msg("user", "seed", seed_user_len(c, report)),
      Msg("assistant", "seed_ack", SEED_ASSISTANT_LEN)>>

\* the sentinel: break, join, then raise the thread's error (which `except
\* Exception` turns into the error event) or store the seed and yield the report
RelaySentinel ==
    /\ pc = "relay"
    /\ reduce_q_get_ready(reduce_q)
    /\ reduce_q_get(reduce_q) = Sentinel
    /\ reduce_q' = Tail(reduce_q)
    /\ pc' = "done"
    /\ IF reduce_error # "None"
       THEN /\ Yield(ErrorEvent(reduce_error))
            /\ UNCHANGED conversation_history
       ELSE /\ conversation_history' = compact_seed(project_dir, reduce_result)
            /\ Yield(ReportEvent(reduce_result))
    /\ UNCHANGED <<project_path, scan_result, project_dir, strategy, m_chunks,
                   map_vars, round_vars, r_pc, consolidated, reduce_result,
                   reduce_error, llm_vars, ask_vars, chunk_vars, batch_vars, trunc_vars, web_vars>>

-----------------------------------------------------------------------------
\* agent.py: ask and reset.

\* if not self.conversation_history: raise
no_project_analyzed_never(history) == FALSE

no_project_analyzed(history) == history = <<>>

\* self.conversation_history.append({"role": "user", "content": question})
append_question(history, q) == Append(history, Msg("user", "question", q))

\* self.conversation_history.append({"role": "assistant", "content": answer})
append_answer_dropped(history, a) == history

append_answer(history, a) == Append(history, Msg("assistant", "answer", a))

AskCall(est) ==
    [kind |-> "ask", round |-> 0, unit |-> asks + 1, est |-> est]

AskNoProject(q) ==
    /\ asks < MaxAsks
    /\ no_project_analyzed(conversation_history)
    /\ asks' = asks + 1
    /\ ask_result' = "no_project"
    /\ UNCHANGED <<agent_vars, run_vars, map_vars, round_vars, thread_vars,
                   llm_vars, chunk_vars, batch_vars, trunc_vars, web_vars>>

\* the question is appended, then _call_llm refuses the history
AskTooLarge(q) ==
    /\ asks < MaxAsks
    /\ ~no_project_analyzed(conversation_history)
    /\ LET asked == append_question(conversation_history, q) IN
       /\ payload_too_large(HistoryEstimate(asked))
       /\ rejected' = rejected \cup {AskCall(HistoryEstimate(asked))}
       /\ conversation_history' = asked
    /\ asks' = asks + 1
    /\ ask_result' = "too_large"
    /\ UNCHANGED <<project_path, scan_result, run_vars, map_vars, round_vars,
                   thread_vars, requests, chunk_vars, batch_vars, trunc_vars, web_vars>>

\* the question is appended, the backend answers, the answer is appended
AskOk(q, a) ==
    /\ asks < MaxAsks
    /\ ~no_project_analyzed(conversation_history)
    /\ LET asked == append_question(conversation_history, q) IN
       /\ ~payload_too_large(HistoryEstimate(asked))
       /\ requests' = send_request(requests, AskCall(HistoryEstimate(asked)))
       /\ conversation_history' = append_answer(asked, a)
    /\ asks' = asks + 1
    /\ ask_result' = "answer"
    /\ UNCHANGED <<project_path, scan_result, run_vars, map_vars, round_vars,
                   thread_vars, rejected, chunk_vars, batch_vars, trunc_vars, web_vars>>

\* the question is appended, the backend fails, _call_llm raises
AskFail(q) ==
    /\ asks < MaxAsks
    /\ ~no_project_analyzed(conversation_history)
    /\ LET asked == append_question(conversation_history, q) IN
       /\ ~payload_too_large(HistoryEstimate(asked))
       /\ requests' = send_request(requests, AskCall(HistoryEstimate(asked)))
       /\ conversation_history' = asked
    /\ asks' = asks + 1
    /\ ask_result' = "backend"
    /\ UNCHANGED <<project_path, scan_result, run_vars, map_vars, round_vars,
                   thread_vars, rejected, chunk_vars, batch_vars, trunc_vars, web_vars>>

\* reset(), between runs
Reset ==
    /\ pc \in {"idle", "done"}
    /\ conversation_history' = <<>>
    /\ project_path' = 0
    /\ scan_result' = 0
    /\ UNCHANGED <<run_vars, map_vars, round_vars, thread_vars, llm_vars, ask_vars,
                   chunk_vars, batch_vars, trunc_vars, web_vars>>

-----------------------------------------------------------------------------
\* agent.py: analyze_project, the blocking wrapper, applied to the events a
\* stream yields.  The outcome is [kind: "return" | "raise", report: the
\* report returned (-1 for None), err: what the RuntimeError carries].

\* for event in self.analyze_project_stream(project_dir): ...
RECURSIVE AnalyzeLoop(_, _, _)
AnalyzeLoop(evs, i, report) ==
    IF i > Len(evs)
    THEN IF report = -1
         THEN [kind |-> "raise", report |-> -1, err |-> "no_report"]
         ELSE [kind |-> "return", report |-> report, err |-> ""]
    ELSE IF evs[i].stage = "report" THEN AnalyzeLoop(evs, i + 1, evs[i].extra)
    ELSE IF evs[i].stage = "error"
         THEN [kind |-> "raise", report |-> -1, err |-> evs[i].err]
    ELSE AnalyzeLoop(evs, i + 1, report)

RECURSIVE LastReportOrNone(_, _, _)
LastReportOrNone(evs, i, report) ==
    IF i > Len(evs) THEN report
    ELSE LastReportOrNone(evs, i + 1,
                          IF evs[i].stage = "report" THEN evs[i].extra ELSE report)

analyze_project_unchecked(evs) ==
    [kind |-> "return", report |-> LastReportOrNone(evs, 1, -1), err |-> ""]

analyze_project(evs) == AnalyzeLoop(evs, 1, -1)

-----------------------------------------------------------------------------
\* app.py: the SSE stream of /api/analyze, from the agent's events on.

\* the three "status" events yielded before the agent is called
SseStatus == <<"status", "status", "status">>

\* `if not report`: report is None (-1) or ""
not_report(report) == report <= 0

\* for progress_event in agent.analyze_project_stream(repo_dir): ..., then,
\* once the agent's generator is exhausted, `if not report` and the
\* "report" event.  exhausted: the agent's generator has ended.
RECURSIVE GenerateLoop(_, _, _, _, _)
GenerateLoop(evs, exhausted, i, report, out) ==
    IF i > Len(evs)
    THEN IF ~exhausted THEN out
         ELSE IF not_report(report) THEN Append(out, "error")
         ELSE Append(out, "report")
    ELSE IF evs[i].stage \in {"chunking", "mapping", "reducing"}
         THEN GenerateLoop(evs, exhausted, i + 1, report, Append(out, "pipeline"))
    ELSE IF evs[i].stage = "report"
         THEN GenerateLoop(evs, exhausted, i + 1, evs[i].extra, out)
    ELSE IF evs[i].stage = "error" THEN Append(out, "error")
    ELSE GenerateLoop(evs, exhausted, i + 1, report, out)

\* what generate() has yielded when the agent has yielded evs
generate(evs, exhausted) == GenerateLoop(evs, exhausted, 1, -1, SseStatus)

-----------------------------------------------------------------------------
\* The agent after __init__, with no generator running.

AgentInit ==
    /\ conversation_history = <<>>
    /\ project_path = 0
    /\ scan_result = 0
    /\ pc = "idle"
    /\ project_dir = 0
    /\ strategy = "none"
    /\ events = <<>>
    /\ m_chunks = <<>>
    /\ map_futures = <<>>
    /\ map_taken = {}
    /\ chunk_summaries = <<>>
    /\ map_completed = 0
    /\ r_pc = "off"
    /\ reduce_round = 0
    /\ r_summaries = <<>>
    /\ r_batches = <<>>
    /\ reduce_futures = <<>>
    /\ reduce_taken = {}
    /\ intermediate = <<>>
    /\ completed = 0
    /\ consolidated = NoSummary
    /\ reduce_q = <<>>
    /\ reduce_result = -1
    /\ reduce_error = "None"
    /\ requests = {}
    /\ rejected = {}
    /\ asks = 0
    /\ ask_result = "none"

pipeline_vars == <<agent_vars, run_vars, map_vars, round_vars, thread_vars,
                   llm_vars, ask_vars>>

-----------------------------------------------------------------------------
\* app.py: the session registry, its lock, the clone directories and the
\* request handlers.  Flask serves every request in a thread of its own
\* (threaded=True).  An agent is represented here by the session id it was
\* constructed for, by whether its conversation_history is non-empty, and
\* by whether _clear_session has removed its record; its pipeline is the
\* subject of Spec.  A repository URL and its clone directory (clone_base /
\* slug) are the same number.

WebThreads == {1, 2}
\* session ids a client sends on its own; uuid4 issues the ids above them
ClientIds == {1, 2}
Urls == {1, 2}

\* a request thread with no request
NoHandler ==
    [pc |-> "idle", req |-> "none", sid |-> 0, url |-> 0, record |-> 0, repo_dir |-> 0]

\* with _sessions_lock: the lock can be taken when no thread holds it
lock_free_always(lock) == TRUE

lock_free(lock) == lock = 0

\* str(uuid.uuid4()): an id never issued before
uuid4 == Cardinality(ClientIds) + uuids + 1

\* session_id in _sessions, _sessions[session_id]
HasSession(reg, sid) == \E r \in reg : r.sid = sid
GetSession(reg, sid) == CHOOSE r \in reg : r.sid = sid

\* _sessions[session_id] = {"agent": ..., "repo_dir": ...}
PutSession(reg, sid, agent, repo_dir) ==
    {r \in reg : r.sid # sid} \cup {[sid |-> sid, agent |-> agent, repo_dir |-> repo_dir]}

\* CodebaseAnalysisAgent(): a new object, with an empty history
NewAgent(sid) == [sid |-> sid, analysed |-> FALSE, popped |-> FALSE]

\* the handler of thread t moves on
Goto(t, h) == handlers' = [handlers EXCEPT ![t] = h]
At(t, where) == handlers[t].pc = where

\* a request arrives and a thread starts its handler
Receive(t) ==
    /\ At(t, "idle")
    /\ web_requests < MaxWebRequests
    /\ web_requests' = web_requests + 1

\* POST /api/session/new: session_id = str(uuid.uuid4())
NewSession(t) ==
    /\ Receive(t)
    /\ Goto(t, [NoHandler EXCEPT !.pc = "goc_lock", !.req = "new", !.sid = uuid4])
    /\ uuids' = uuids + 1
    /\ UNCHANGED <<sessions, sessions_lock, clone_dirs, agents>>
    /\ UNCHANGED <<chunk_vars, batch_vars, trunc_vars, pipeline_vars>>

\* clone_github_repo(url, force_redownload=False): the cached directory is
\* returned when it exists, else the repository is cloned into it
clone_github_repo(dirs, url) == dirs \cup {url}

\* POST /api/analyze, generate() up to the clone: the directory is there
\* afterwards
AnalyzeClone(t, sid, url) ==
    /\ Receive(t)
    /\ clone_dirs' = clone_github_repo(clone_dirs, url)
    /\ Goto(t, [NoHandler EXCEPT !.pc = "goc_lock", !.req = "analyze", !.sid = sid,
                                 !.url = url, !.repo_dir = url])
    /\ UNCHANGED <<sessions, sessions_lock, agents, uuids>>
    /\ UNCHANGED <<chunk_vars, batch_vars, trunc_vars, pipeline_vars>>

\* ... the clone raises: generate() yields the error and returns
AnalyzeCloneFails(t, sid, url) ==
    /\ Receive(t)
    /\ url \notin clone_dirs
    /\ UNCHANGED <<sessions, sessions_lock, clone_dirs, agents, uuids, handlers>>
    /\ UNCHANGED <<chunk_vars, batch_vars, trunc_vars, pipeline_vars>>

\* _get_or_create_session: with _sessions_lock
GetOrCreateAcquire(t) ==
    /\ At(t, "goc_lock")
    /\ lock_free(sessions_lock)
    /\ sessions_lock' = t
    /\ Goto(t, [handlers[t] EXCEPT !.pc = "goc_check"])
    /\ UNCHANGED <<sessions, clone_dirs, agents, uuids, web_requests>>
    /\ UNCHANGED <<chunk_vars, batch_vars, trunc_vars, pipeline_vars>>

\* if session_id not in _sessions
GetOrCreateCheck(t) ==
    /\ At(t, "goc_check")
    /\ Goto(t, [handlers[t] EXCEPT
                  !.pc = IF HasSession(sessions, handlers[t].sid)
                         THEN "goc_return" ELSE "goc_insert"])
    /\ UNCHANGED <<sessions, sessions_lock, clone_dirs, agents, uuids, web_requests>>
    /\ UNCHANGED <<chunk_vars, batch_vars, trunc_vars, pipeline_vars>>

\* _sessions[session_id] = {"agent": CodebaseAnalysisAgent(), "repo_dir": None}
GetOrCreateInsert(t) ==
    /\ At(t, "goc_insert")
    /\ agents' = Append(agents, NewAgent(handlers[t].sid))
    /\ sessions' = PutSession(sessions, handlers[t].sid, Len(agents'), 0)
    /\ Goto(t, [handlers[t] EXCEPT !.pc = "goc_return"])
    /\ UNCHANGED <<sessions_lock, clone_dirs, uuids, web_requests>>
    /\ UNCHANGED <<chunk_vars, batch_vars, trunc_vars, pipeline_vars>>

\* return _sessions[session_id], leaving the `with` block; the caller goes
\* on: generate() with record["agent"], the other routes answer
GetOrCreateReturn(t) ==
    /\ At(t, "goc_return")
    /\ sessions_lock' = 0
    /\ IF ~HasSession(sessions, handlers[t].sid)
       THEN Goto(t, NoHandler)  \* KeyError
       ELSE IF handlers[t].req = "analyze"
       THEN Goto(t, [handlers[t] EXCEPT
                       !.pc = "reset",
                       !.record = GetSession(sessions, handlers[t].sid).agent])
       ELSE Goto(t, NoHandler)
    /\ UNCHANGED <<sessions, clone_dirs, agents, uuids, web_requests>>
    /\ UNCHANGED <<chunk_vars, batch_vars, trunc_vars, pipeline_vars>>

\* agent.reset()
AnalyzeReset(t) ==
    /\ At(t, "reset")
    /\ agents' = [agents EXCEPT ![handlers[t].record].analysed = FALSE]
    /\ Goto(t, [handlers[t] EXCEPT !.pc = "rec_lock"])
    /\ UNCHANGED <<sessions, sessions_lock, clone_dirs, uuids, web_requests>>
    /\ UNCHANGED <<chunk_vars, batch_vars, trunc_vars, pipeline_vars>>

\* with _sessions_lock (storing repo_dir)
RecordDirAcquire(t) ==
    /\ At(t, "rec_lock")
    /\ lock_free(sessions_lock)
    /\ sessions_lock' = t
    /\ Goto(t, [handlers[t] EXCEPT !.pc = "rec_write"])
    /\ UNCHANGED <<sessions, clone_dirs, agents, uuids, web_requests>>
    /\ UNCHANGED <<chunk_vars, batch_vars, trunc_vars, pipeline_vars>>

\* if session_id in _sessions: _sessions[session_id]["repo_dir"] = repo_dir
RecordDirWrite(t) ==
    /\ At(t, "rec_write")
    /\ sessions' =
          IF HasSession(sessions, handlers[t].sid)
          THEN PutSession(sessions, handlers[t].sid,
                          GetSession(sessions, handlers[t].sid).agent,
                          handlers[t].repo_dir)
          ELSE sessions
    /\ sessions_lock' = 0
    /\ Goto(t, [handlers[t] EXCEPT !.pc = "scan"])
    /\ UNCHANGED <<clone_dirs, agents, uuids, web_requests>>
    /\ UNCHANGED <<chunk_vars, batch_vars, trunc_vars, pipeline_vars>>

\* agent.analyze_project_stream(repo_dir), up to the end of the scan: a
\* missing directory ends the run with an error event; on the single-call
\* path the history is set before the backend is called
AnalyzeScan(t, single) ==
    /\ At(t, "scan")
    /\ IF handlers[t].repo_dir \notin clone_dirs
       THEN /\ Goto(t, NoHandler)
            /\ UNCHANGED agents
       ELSE /\ Goto(t, [handlers[t] EXCEPT !.pc = "llm"])
            /\ agents' = [agents EXCEPT ![handlers[t].record].analysed =
                                           single \/ agents[handlers[t].record].analysed]
    /\ UNCHANGED <<sessions, sessions_lock, clone_dirs, uuids, web_requests>>
    /\ UNCHANGED <<chunk_vars, batch_vars, trunc_vars, pipeline_vars>>

\* ... the rest of the run: it ends with its report (the history is set)
\* or with an error event; generate() yields its last SSE event
AnalyzeEnd(t, ok) ==
    /\ At(t, "llm")
    /\ agents' = [agents EXCEPT ![handlers[t].record].analysed =
                                   ok \/ agents[handlers[t].record].analysed]
    /\ Goto(t, NoHandler)
    /\ UNCHANGED <<sessions, sessions_lock, clone_dirs, uuids, web_requests>>
    /\ UNCHANGED <<chunk_vars, batch_vars, trunc_vars, pipeline_vars>>

\* POST /api/ask
AskRoute(t, sid) ==
    /\ Receive(t)
    /\ Goto(t, [NoHandler EXCEPT !.pc = "ask_lock", !.req = "ask", !.sid = sid])
    /\ UNCHANGED <<sessions, sessions_lock, clone_dirs, agents, uuids>>
    /\ UNCHANGED <<chunk_vars, batch_vars, trunc_vars, pipeline_vars>>

\* with _sessions_lock
AskAcquire(t) ==
    /\ At(t, "ask_lock")
    /\ lock_free(sessions_lock)
    /\ sessions_lock' = t
    /\ Goto(t, [handlers[t] EXCEPT !.pc = "ask_lookup"])
    /\ UNCHANGED <<sessions, clone_dirs, agents, uuids, web_requests>>
    /\ UNCHANGED <<chunk_vars, batch_vars, trunc_vars, pipeline_vars>>

\* record = _sessions.get(session_id); 404 when there is none
AskLookup(t) ==
    /\ At(t, "ask_lookup")
    /\ sessions_lock' = 0
    /\ IF HasSession(sessions, handlers[t].sid)
       THEN Goto(t, [handlers[t] EXCEPT
                       !.pc = "ask_call",
                       !.record = GetSession(sessions, handlers[t].sid).agent])
       ELSE Goto(t, NoHandler)
    /\ UNCHANGED <<sessions, clone_dirs, agents, uuids, web_requests>>
    /\ UNCHANGED <<chunk_vars, batch_vars, trunc_vars, pipeline_vars>>

\* 400 when the agent's history is empty, else agent.ask(question): the
\* answer, or 500
AskAnswer(t) ==
    /\ At(t, "ask_call")
    /\ Goto(t, NoHandler)
    /\ UNCHANGED <<sessions, sessions_lock, clone_dirs, agents, uuids, web_requests>>
    /\ UNCHANGED <<chunk_vars, batch_vars, trunc_vars, pipeline_vars>>

\* POST /api/restart and POST /api/session/reset: _clear_session(session_id)
RestartRoute(t, sid) ==
    /\ Receive(t)
    /\ Goto(t, [NoHandler EXCEPT !.pc = "clear_lock", !.req = "restart", !.sid = sid])
    /\ UNCHANGED <<sessions, sessions_lock, clone_dirs, agents, uuids>>
    /\ UNCHANGED <<chunk_vars, batch_vars, trunc_vars, pipeline_vars>>

\* _clear_session: with _sessions_lock
ClearAcquire(t) ==
    /\ At(t, "clear_lock")
    /\ lock_free(sessions_lock)
    /\ sessions_lock' = t
    /\ Goto(t, [handlers[t] EXCEPT !.pc = "clear_pop"])
    /\ UNCHANGED <<sessions, clone_dirs, agents, uuids, web_requests>>
    /\ UNCHANGED <<chunk_vars, batch_vars, trunc_vars, pipeline_vars>>

\* record = _sessions.pop(session_id, None)
ClearPop(t) ==
    /\ At(t, "clear_pop")
    /\ sessions_lock' = 0
    /\ IF HasSession(sessions, handlers[t].sid)
       THEN LET record == GetSession(sessions, handlers[t].sid) IN
            /\ sessions' = sessions \ {record}
            /\ agents' = [agents EXCEPT ![record.agent].popped = TRUE]
            /\ Goto(t, [handlers[t] EXCEPT !.pc = "clear_rm",
                                           !.record = record.agent,
                                           !.repo_dir = record.repo_dir])
       ELSE /\ Goto(t, [handlers[t] EXCEPT !.pc = "clear_rm"])
            /\ UNCHANGED <<sessions, agents>>
    /\ UNCHANGED <<clone_dirs, uuids, web_requests>>
    /\ UNCHANGED <<chunk_vars, batch_vars, trunc_vars, pipeline_vars>>

\* if repo_dir and os.path.isdir(repo_dir): shutil.rmtree(repo_dir)
clear_rmtree(reg, dirs, record, repo_dir) ==
    IF record # 0 /\ repo_dir # 0 /\ repo_dir \in dirs
    THEN dirs \ {repo_dir}
    ELSE dirs

\* the rest of _clear_session, outside the lock; then the route issues a
\* new id and calls _get_or_create_session(new_id)
ClearRmtree(t) ==
    /\ At(t, "clear_rm")
    /\ clone_dirs' = clear_rmtree(sessions, clone_dirs, handlers[t].record,
                                  handlers[t].repo_dir)
    /\ Goto(t, [NoHandler EXCEPT !.pc = "goc_lock", !.req = "restart", !.sid = uuid4])
    /\ uuids' = uuids + 1
    /\ UNCHANGED <<sessions, sessions_lock, agents, web_requests>>
    /\ UNCHANGED <<chunk_vars, batch_vars, trunc_vars, pipeline_vars>>

\* the process after app.py is imported
WebInit ==
    /\ sessions = {}
    /\ sessions_lock = 0
    /\ clone_dirs = {}
    /\ agents = <<>>
    /\ uuids = 0
    /\ handlers = [t \in WebThreads |-> NoHandler]
    /\ web_requests = 0

-----------------------------------------------------------------------------
\* SpecBatch: _build_token_aware_batches applied to lists made of a freely
\* chosen head, a run of equal small summaries and a freely chosen tail.
\* The sizes straddle the available size: a summary of reduce_available \div 2
\* tokens and one of reduce_available \div 2 + 1 fit together exactly, two of
\* the latter do not, and one of reduce_available + 1 exceeds it alone.

BatchLens ==
    {300, (reduce_available \div 2) * CHARS_PER_TOKEN,
          (reduce_available \div 2 + 1) * CHARS_PER_TOKEN,
          (reduce_available + 1) * CHARS_PER_TOKEN}

ShortLists == UNION {[1..n -> BatchLens] : n \in 0..MaxTail}

LeafSummaries(lens) == [i \in 1..Len(lens) |-> [len |-> lens[i], gen |-> 0, src |-> {i}]]

ChunkOff == c_text = <<>> /\ c_budget = 1 /\ c_chunks = <<>> /\ c_pc = "off"
BatchOff == b_summaries = <<>> /\ b_batches = <<>> /\ b_pc = "off"
TruncOff ==
    /\ t_text = <<>>
    /\ t_max_tokens = 0
    /\ t_notice = <<>>
    /\ t_result = <<>>
    /\ t_pc = "off"

BatchInit ==
    /\ \E head \in ShortLists, tail \in ShortLists, k \in 0..MaxRun :
          b_summaries = LeafSummaries(head \o [i \in 1..k |-> 300] \o tail)
    /\ b_batches = <<>>
    /\ b_pc = "ready"
    /\ ChunkOff
    /\ TruncOff
    /\ AgentInit
    /\ WebInit

RunBuildBatches ==
    /\ b_pc = "ready"
    /\ b_batches' = build_token_aware_batches(b_summaries)
    /\ b_pc' = "batched"
    /\ UNCHANGED <<b_summaries, chunk_vars, trunc_vars, pipeline_vars,
                   web_vars>>

-----------------------------------------------------------------------------
\* SpecChunk: chunk_text applied to every text over {a, \n, \r} of at most
\* MaxTextLen characters, with every budget in 1..MaxBudget.

Chars == {"a", "\n", "\r"}
Texts == UNION {[1..n -> Chars] : n \in 0..MaxTextLen}

ChunkInit ==
    /\ c_text \in Texts
    /\ c_budget \in 1..MaxBudget
    /\ c_chunks = <<>>
    /\ c_pc = "ready"
    /\ BatchOff
    /\ TruncOff
    /\ AgentInit
    /\ WebInit

RunChunkText ==
    /\ c_pc = "ready"
    /\ c_chunks' = chunk_text(c_text, c_budget)
    /\ c_pc' = "chunked"
    /\ UNCHANGED <<c_text, c_budget, batch_vars, trunc_vars, pipeline_vars,
                   web_vars>>

-----------------------------------------------------------------------------
\* SpecTruncate: truncate_to_token_limit applied to every text over {a, b}
\* of at most MaxTruncLen characters, with every limit in 0..MaxTruncTokens
\* and every notice of at most MaxNoticeLen characters.

TruncTexts == UNION {[1..n -> {"a", "b"}] : n \in 0..MaxTruncLen}
Notices == UNION {[1..n -> {"n"}] : n \in 0..MaxNoticeLen}

TruncInit ==
    /\ t_text \in TruncTexts
    /\ t_max_tokens \in 0..MaxTruncTokens
    /\ t_notice \in Notices
    /\ t_result = <<>>
    /\ t_pc = "ready"
    /\ ChunkOff
    /\ BatchOff
    /\ AgentInit
    /\ WebInit

RunTruncate ==
    /\ t_pc = "ready"
    /\ t_result' = truncate_to_token_limit(t_text, t_max_tokens, t_notice)
    /\ t_pc' = "truncated"
    /\ UNCHANGED <<t_text, t_max_tokens, t_notice, chunk_vars, batch_vars,
                   pipeline_vars, web_vars>>

SpecTruncate == TruncInit /\ [][RunTruncate]_vars

-----------------------------------------------------------------------------
\* SpecWeb: the server with two request threads and MaxWebRequests requests:
\* new sessions, analyses, questions and restarts for any session id.

\* the ids a request can name: a client's own, or one the server issued
KnownIds == 1..(uuid4 - 1)

WebSpecInit ==
    /\ WebInit
    /\ AgentInit
    /\ ChunkOff
    /\ BatchOff
    /\ TruncOff

WebNext ==
    \/ \E t \in WebThreads : NewSession(t)
    \/ \E t \in WebThreads, sid \in KnownIds, url \in Urls : AnalyzeClone(t, sid, url)
    \/ \E t \in WebThreads, sid \in KnownIds, url \in Urls : AnalyzeCloneFails(t, sid, url)
    \/ \E t \in WebThreads : GetOrCreateAcquire(t)
    \/ \E t \in WebThreads : GetOrCreateCheck(t)
    \/ \E t \in WebThreads : GetOrCreateInsert(t)
    \/ \E t \in WebThreads : GetOrCreateReturn(t)
    \/ \E t \in WebThreads : AnalyzeReset(t)
    \/ \E t \in WebThreads : RecordDirAcquire(t)
    \/ \E t \in WebThreads : RecordDirWrite(t)
    \/ \E t \in WebThreads, single \in BOOLEAN : AnalyzeScan(t, single)
    \/ \E t \in WebThreads, ok \in BOOLEAN : AnalyzeEnd(t, ok)
    \/ \E t \in WebThreads, sid \in KnownIds : AskRoute(t, sid)
    \/ \E t \in WebThreads : AskAcquire(t)
    \/ \E t \in WebThreads : AskLookup(t)
    \/ \E t \in WebThreads : AskAnswer(t)
    \/ \E t \in WebThreads, sid \in KnownIds : RestartRoute(t, sid)
    \/ \E t \in WebThreads : ClearAcquire(t)
    \/ \E t \in WebThreads : ClearPop(t)
    \/ \E t \in WebThreads : ClearRmtree(t)

SpecWeb == WebSpecInit /\ [][WebNext]_vars

SpecChunk == ChunkInit /\ [][RunChunkText]_vars

SpecBatch == BatchInit /\ [][RunBuildBatches]_vars

-----------------------------------------------------------------------------
\* Spec: a new agent, one call of analyze_project_stream on it with its
\* workers and its reduce thread, and calls of ask (at any moment) and of
\* reset (while no run is in progress).

Init == AgentInit /\ ChunkOff /\ BatchOff /\ TruncOff /\ WebInit

Next ==
    \/ \E c \in CorpusIds : StartRun(c)
    \/ SingleSetHistory
    \/ SingleSend
    \/ \E len \in ReportLens : SingleReturnOk(len)
    \/ SingleReturnFail
    \/ MapLaunch
    \/ \E i \in 1..Len(map_futures) : MapWorkerStart(i)
    \/ \E i \in 1..Len(map_futures), len \in RespLens : MapWorkerOk(i, len)
    \/ \E i \in 1..Len(map_futures) : MapWorkerFail(i)
    \/ \E i \in 1..Len(map_futures) : MapCollect(i)
    \/ MapAbortDone
    \/ StartReduceThread
    \/ ReduceEnter
    \/ \E i \in 1..Len(reduce_futures) : ReduceWorkerStart(i)
    \/ \E i \in 1..Len(reduce_futures), len \in RespLens : ReduceWorkerOk(i, len)
    \/ \E i \in 1..Len(reduce_futures) : ReduceWorkerFail(i)
    \/ \E i \in 1..Len(reduce_futures) : ReduceCollect(i)
    \/ ReduceAbortDone
    \/ ReduceRecurse
    \/ ReduceReturn
    \/ SynthSend
    \/ \E len \in ReportLens : SynthOk(len)
    \/ SynthFail
    \/ RelayEvent
    \/ RelaySentinel
    \/ \E q \in QuestionLens : AskNoProject(q)
    \/ \E q \in QuestionLens : AskTooLarge(q)
    \/ \E q \in QuestionLens, a \in AnswerLens : AskOk(q, a)
    \/ \E q \in QuestionLens : AskFail(q)
    \/ Reset

Spec == Init /\ [][Next]_vars

-----------------------------------------------------------------------------
\* SpecPool: one run of analyze_project_stream on the project with
\* PoolUnits chunks.  Every chunk summary has 135,000 characters, so that
\* no two of them share a batch and the first reduce round has PoolUnits
\* batches as well; the reduce calls return short summaries.  The backend
\* call of the first unit of a stage may fail, the others succeed: the
\* units queued behind a failure are then still started by the pool.

PoolSummaryLens == {135000}
PoolReduceLens == {300}

PoolNext ==
    \/ StartRun(PoolCorpus)
    \/ MapLaunch
    \/ \E i \in 1..Len(map_futures) : MapWorkerStart(i)
    \/ \E i \in 1..Len(map_futures), len \in PoolSummaryLens : MapWorkerOk(i, len)
    \/ MapWorkerFail(1)
    \/ \E i \in 1..Len(map_futures) : MapCollect(i)
    \/ MapAbortDone
    \/ StartReduceThread
    \/ ReduceEnter
    \/ \E i \in 1..Len(reduce_futures) : ReduceWorkerStart(i)
    \/ \E i \in 1..Len(reduce_futures), len \in PoolReduceLens : ReduceWorkerOk(i, len)
    \/ ReduceWorkerFail(1)
    \/ \E i \in 1..Len(reduce_futures) : ReduceCollect(i)
    \/ ReduceAbortDone
    \/ ReduceRecurse
    \/ ReduceReturn
    \/ SynthSend
    \/ \E len \in ReportLens : SynthOk(len)
    \/ SynthFail
    \/ RelayEvent
    \/ RelaySentinel

SpecPool == Init /\ [][PoolNext]_vars

-----------------------------------------------------------------------------
\* Claims about the pipeline (Spec).

IsTerminal(ev) == ev.stage \in {"report", "error"}
EventsOfStage(stage) == {i \in 1..Len(events) : events[i].stage = stage}
Calls == requests \cup rejected
CallsOfKind(kind) == {call \in Calls : call.kind = kind}
MapFailed == \E i \in 1..Len(map_futures) : map_futures[i].st = "failed"
ReduceFailed == \E i \in 1..Len(reduce_futures) : reduce_futures[i].st = "failed"

\* C1: on both paths and whatever stage fails, a run yields one terminal
\* event ("report" or "error"), never both, and it is the last event: no
\* event follows a terminal event, the generator goes on exactly as long as
\* it has yielded none, and it ends having yielded exactly one.
C1_OneTerminalLast ==
    /\ \A i \in 1..Len(events) : IsTerminal(events[i]) => i = Len(events)
    /\ pc = "done" <=> (events # <<>> /\ IsTerminal(events[Len(events)]))
    /\ Cardinality(EventsOfStage("report") \cup EventsOfStage("error")) <= 1

\* a reached case of C1: a map-reduce run that failed in a reduce round
\* after "reducing" events were yielded, and ended with the error event
C1_Witness ==
    /\ pc = "done"
    /\ strategy = "mapreduce"
    /\ ReduceFailed
    /\ EventsOfStage("reducing") # {}
    /\ events[Len(events)].stage = "error"

\* C2: once a backend call of the map stage or of a reduce round has failed,
\* no report is yielded, the synthesis is never called, no later reduce
\* round is started, no reduction is returned, and the finished run has
\* yielded exactly one "error" event.
C2_FailureEndsRun ==
    (MapFailed \/ ReduceFailed) =>
        /\ EventsOfStage("report") = {}
        /\ CallsOfKind("synthesis") = {}
        /\ r_pc \notin {"enter", "synth", "synth_wait"}
        /\ consolidated = NoSummary
        /\ reduce_result = -1
        /\ MapFailed => r_pc = "off" /\ CallsOfKind("reduce") = {}
        /\ \A call \in CallsOfKind("reduce") : call.round <= reduce_round
        /\ pc = "done" =>
              /\ Cardinality(EventsOfStage("error")) = 1
              /\ events[Len(events)].stage = "error"

\* a reached case of C2: batch 2 of round 1 failed while batch 1 succeeded,
\* and the run is over
C2_Witness ==
    /\ pc = "done"
    /\ reduce_round = 1
    /\ Len(reduce_futures) >= 2
    /\ reduce_futures[1].st = "done"
    /\ reduce_futures[2].st = "failed"
    /\ events[Len(events)].stage = "error"

\* C3: every reduce round that does not end the reduction hands strictly
\* fewer summaries to the next round.
C3_RoundsShrink ==
    [][(reduce_round >= 1 /\ reduce_round' = reduce_round + 1)
          => Len(r_summaries') < Len(r_summaries)]_vars

\* C4: the backend is never sent a message list whose combined estimate
\* exceeds MODEL_CONTEXT_LIMIT = 131,072, whichever stage calls it; such a
\* call is refused and no request is made for it.
C4_GuardedRequests ==
    /\ MODEL_CONTEXT_LIMIT = 131072
    /\ \A call \in requests : call.est <= MODEL_CONTEXT_LIMIT
    /\ \A call \in rejected :
          /\ call.est > MODEL_CONTEXT_LIMIT
          /\ \A sent \in requests :
                ~(sent.kind = call.kind /\ sent.round = call.round
                    /\ sent.unit = call.unit)

\* a reached case of C4: a reduce call was refused by the guard in a run
\* whose map calls were sent
C4_Witness ==
    /\ \E call \in rejected : call.kind = "reduce"
    /\ \E call \in requests : call.kind = "map"
    /\ \A call \in requests : call.est <= MODEL_CONTEXT_LIMIT

\* C8: _hierarchical_reduce called with exactly one summary returns it
\* unchanged, makes no backend call and emits no progress event.
C8_ReduceSingleton ==
    (Len(r_summaries) = 1 /\ r_pc \notin {"off", "enter"}) =>
        /\ consolidated = r_summaries[1]
        /\ consolidated = chunk_summaries[1]
        /\ CallsOfKind("reduce") = {}
        /\ EventsOfStage("reducing") = {}
        /\ \A i \in 1..Len(reduce_q) : reduce_q[i].stage # "reducing"

\* a reached case of C8: a one-chunk map-reduce run that went through the
\* reduce and produced its report
C8_Witness ==
    /\ Len(r_summaries) = 1
    /\ r_pc = "done"
    /\ reduce_result >= 0
    /\ consolidated = chunk_summaries[1]
    /\ pc = "done"

\* C9: a run takes the single-call path (one call of the backend, for the
\* whole prompt, and no chunk, reduce or synthesis call) if and only if
\* estimate(system prompt) + estimate(full user prompt) <= MAX_PROMPT_TOKENS
\* = 123,072, and the map-reduce path otherwise; the 50,000-token prompt
\* goes to the single call and the 500,000-token prompt to map-reduce.
C9_Routing ==
    /\ MAX_PROMPT_TOKENS = 123072
    /\ strategy # "none" =>
          (strategy = "single" <=> total_tokens(project_dir) <= 123072)
    /\ strategy = "single" =>
          /\ \A call \in Calls : call.kind \in {"single", "ask"}
          /\ Cardinality(CallsOfKind("single")) <= 1
          /\ pc = "done" => Cardinality(CallsOfKind("single")) = 1
          /\ m_chunks = <<>> /\ map_futures = <<>> /\ r_pc = "off"
    /\ strategy = "mapreduce" =>
          /\ CallsOfKind("single") = {}
          /\ Len(m_chunks) >= 1
    /\ (strategy # "none" /\ total_tokens(project_dir) = 50000) => strategy = "single"
    /\ (strategy # "none" /\ total_tokens(project_dir) = 500000) => strategy = "mapreduce"

\* a reached case of C9: a prompt of exactly 123,072 tokens went to the
\* single call and the run ended with its report
C9_Witness ==
    /\ pc = "done"
    /\ strategy = "single"
    /\ total_tokens(project_dir) = 123072
    /\ \E call \in requests : call.kind = "single"
    /\ events[Len(events)].stage = "report"

\* C10: ask on an agent whose conversation history is empty (just created
\* or just reset) fails with the no-project-analyzed error, makes no backend
\* call and leaves the history empty.
C10_AskWithoutProject ==
    [][(asks' = asks + 1 /\ conversation_history = <<>>)
          => /\ ask_result' = "no_project"
             /\ conversation_history' = <<>>
             /\ requests' = requests
             /\ rejected' = rejected]_vars

\* a reached case of C10: after a run that produced its report the agent
\* was reset, and ask then failed with the no-project-analyzed error
C10_Witness ==
    /\ pc = "done"
    /\ EventsOfStage("report") # {}
    /\ conversation_history = <<>>
    /\ scan_result = 0
    /\ ask_result = "no_project"
    /\ requests # {}

-----------------------------------------------------------------------------
\* Claims about the session, the wrapper and the concurrency of the stages
\* (Spec).

\* C11: after a run that ended with an "error" event, with no successful run
\* since the agent was created, ask fails with the no-project-analyzed
\* error and makes no backend call.
C11_AskNeedsSuccessfulRun ==
    [][(/\ asks' = asks + 1
        /\ pc = "done"
        /\ events[Len(events)].stage = "error")
          => /\ ask_result' = "no_project"
             /\ requests' = requests]_vars

\* C12: every successful ask makes exactly one backend call, with the full
\* history followed by the question, and extends the history by exactly two
\* messages at its end: the user's question, then the assistant's answer;
\* the earlier messages are unchanged.
C12_AskExtendsByTwo ==
    [][(asks' = asks + 1 /\ ask_result' = "answer")
          => LET n == Len(conversation_history) IN
             /\ Len(conversation_history') = n + 2
             /\ SubSeq(conversation_history', 1, n) = conversation_history
             /\ conversation_history'[n + 1].role = "user"
             /\ conversation_history'[n + 1].kind = "question"
             /\ conversation_history'[n + 2].role = "assistant"
             /\ conversation_history'[n + 2].kind = "answer"
             /\ rejected' = rejected
             /\ Cardinality(requests' \ requests) = 1
             /\ requests \subseteq requests'
             /\ \A call \in requests' \ requests :
                   /\ call.kind = "ask"
                   /\ call.est =
                         HistoryEstimate(SubSeq(conversation_history', 1, n + 1))]_vars

\* a reached case of C12: after a map-reduce run that produced its report,
\* an ask was answered and the seed is followed by question and answer
C12_Witness ==
    /\ pc = "done"
    /\ strategy = "mapreduce"
    /\ EventsOfStage("report") # {}
    /\ ask_result = "answer"
    /\ Len(conversation_history) = 5
    /\ conversation_history[3].kind = "seed_ack"
    /\ conversation_history[4].kind = "question"
    /\ conversation_history[5].kind = "answer"
    /\ \E call \in requests : call.kind = "ask"

\* the least k with b^k >= n
RECURSIVE CeilLog(_, _)
CeilLog(b, n) == IF n <= 1 THEN 0 ELSE 1 + CeilLog(b, (n + b - 1) \div b)

\* C13: the number of reduce rounds _hierarchical_reduce executes on the
\* chunk summaries S is at most ceil(log_20(|S|)).
C13_RoundsBound ==
    r_pc \in {"round", "r_abort"} =>
        reduce_round <= CeilLog(REDUCE_BATCH_MAX, Len(chunk_summaries))

\* C15: after a successful run (and before any ask has appended to it) the
\* history holds exactly three messages, system, user, assistant: the full
\* analysis prompt and the report on the single-call path, the compact seed
\* (directory tree and report, no code) and the acknowledgement on the
\* map-reduce path.
C15_HistoryAfterRun ==
    (/\ pc = "done"
     /\ events[Len(events)].stage = "report"
     /\ scan_result = project_dir
     /\ CallsOfKind("ask") = {})
        => LET report == events[Len(events)].extra
               c == project_dir IN
           /\ Len(conversation_history) = 3
           /\ conversation_history[1] = Msg("system", "system_prompt", SYSTEM_PROMPT_LEN)
           /\ conversation_history[2].role = "user"
           /\ conversation_history[3].role = "assistant"
           /\ strategy = "single" =>
                 /\ conversation_history[2] =
                       Msg("user", "analysis_prompt", full_user_prompt_len(c))
                 /\ conversation_history[3] = Msg("assistant", "report", report)
           /\ strategy = "mapreduce" =>
                 /\ conversation_history[2] =
                       Msg("user", "seed",
                           SEED_USER_LEN + Corpora[c].path + Corpora[c].tree + report)
                 /\ conversation_history[3] =
                       Msg("assistant", "seed_ack", SEED_ASSISTANT_LEN)

\* a reached case of C15: a map-reduce run over several chunks ended with
\* its report and the history is the seed
C15_Witness ==
    /\ pc = "done"
    /\ strategy = "mapreduce"
    /\ Len(m_chunks) >= 2
    /\ events[Len(events)].stage = "report"
    /\ Len(conversation_history) = 3
    /\ conversation_history[2].kind = "seed"

AllDone(futures) == \A i \in 1..Len(futures) : futures[i].st = "done"

\* C17: no reduce call is made before every chunk of the map stage has
\* completed; no call of a later round exists, and the batching of a round
\* is computed only over results of the round before it, all of them
\* present; the next round is entered only when every batch of the round has
\* completed; the synthesis is called only after the last round completed.
C17_RoundBarrier ==
    /\ (r_pc # "off" \/ CallsOfKind("reduce") # {}) =>
          /\ Len(map_futures) = Len(m_chunks)
          /\ AllDone(map_futures)
          /\ \A i \in 1..Len(map_futures) : chunk_summaries[i] = map_futures[i].res
    /\ \A call \in CallsOfKind("reduce") : call.round <= reduce_round
    /\ (\E i \in 1..Len(reduce_futures) : ~Finished(reduce_futures[i])) =>
          \A call \in CallsOfKind("reduce") \cup CallsOfKind("synthesis") :
              call.kind = "reduce" /\ call.round <= reduce_round
    /\ r_pc \in {"round", "r_abort"} =>
          \A i \in 1..Len(r_summaries) :
              /\ r_summaries[i] # NoSummary
              /\ r_summaries[i].gen = reduce_round - 1
    /\ (r_pc = "enter" /\ reduce_round > 1) =>
          /\ AllDone(reduce_futures)
          /\ r_summaries = [i \in 1..Len(reduce_futures) |-> reduce_futures[i].res]
    /\ CallsOfKind("synthesis") # {} =>
          /\ r_pc \in {"synth_wait", "done"}
          /\ AllDone(reduce_futures)
          /\ consolidated # NoSummary

\* a reached case of C17: calls of round 1 and of round 2 were made, then
\* the synthesis was called
C17_Witness ==
    /\ \E call \in requests : call.kind = "reduce" /\ call.round = 1
    /\ \E call \in requests : call.kind = "reduce" /\ call.round = 2
    /\ \E call \in requests : call.kind = "synthesis"
    /\ Len(m_chunks) = 3

\* C18: the result of unit i is stored at position i of the result list
\* whatever the order of completion, so the list handed to the next stage
\* keeps the order of the chunks and the consolidated summary covers all of
\* them.
C18_ResultsByPosition ==
    /\ \A i \in 1..Len(chunk_summaries) :
          /\ chunk_summaries[i] # NoSummary =>
                /\ i \in map_taken
                /\ chunk_summaries[i] = map_futures[i].res
                /\ chunk_summaries[i].src = {i}
          /\ (i \in map_taken /\ map_futures[i].st = "done") =>
                chunk_summaries[i] = map_futures[i].res
    /\ \A i \in 1..Len(intermediate) :
          /\ intermediate[i] # NoSummary =>
                /\ i \in reduce_taken
                /\ intermediate[i] = reduce_futures[i].res
                /\ intermediate[i].src = BatchSources(r_batches[i])
          /\ (i \in reduce_taken /\ reduce_futures[i].st = "done") =>
                intermediate[i] = reduce_futures[i].res
    /\ \A i, j \in 1..Len(r_summaries) :
          i < j => \A a \in r_summaries[i].src, b \in r_summaries[j].src : a < b
    /\ r_pc \in {"round", "r_abort"} => Flatten(r_batches) = r_summaries
    /\ consolidated # NoSummary => consolidated.src = 1..Len(m_chunks)

\* a reached case of C18: the last of three chunks completed and was
\* collected first; its summary is in slot 3 while slots 1 and 2 are empty
C18_Witness ==
    /\ pc = "m_mapping"
    /\ Len(m_chunks) = 3
    /\ map_taken = {3}
    /\ map_completed = 1
    /\ chunk_summaries[3] = map_futures[3].res
    /\ chunk_summaries[3].src = {3}
    /\ chunk_summaries[1] = NoSummary
    /\ chunk_summaries[2] = NoSummary

StageRequests(reqs) == {call \in reqs : call.kind \in {"map", "reduce"}}

\* C19: once the failure of a unit has been raised out of the collecting
\* loop of the map stage or of a reduce round, no backend call is started
\* for another unit of that stage.
C19_AbortStopsCalls ==
    [][(pc = "m_abort" \/ r_pc = "r_abort")
          => StageRequests(requests') = StageRequests(requests)]_vars

IsReducing(ev) == ev.stage = "reducing"
NotSentinel(ev) == ev # Sentinel
\* the "reducing" events yielded so far, followed by those still queued
ReducingSeq == SelectSeq(events, IsReducing) \o SelectSeq(reduce_q, NotSentinel)

\* C20: the "reducing" events are yielded in the order the reduce thread
\* produced them, each once: the events yielded followed by those queued
\* are the round-start event of round 1, its batch events 1, 2, ..., then
\* the same for round 2, ..., up to the last event produced; nothing follows
\* the sentinel in the queue, and when the run ends the queue is empty, so
\* all of them came before the terminal event.
C20_RelayFifo ==
    LET seq == ReducingSeq IN
    /\ \A i \in 1..Len(reduce_q) : reduce_q[i] = Sentinel => i = Len(reduce_q)
    /\ seq # <<>> => (seq[1].round = 1 /\ seq[1].n = 0)
    /\ \A j \in 1..(Len(seq) - 1) :
          \/ /\ seq[j + 1].round = seq[j].round
             /\ seq[j + 1].n = seq[j].n + 1
             /\ seq[j + 1].total = seq[j].total
          \/ /\ seq[j + 1].round = seq[j].round + 1
             /\ seq[j + 1].n = 0
             /\ seq[j].n = seq[j].total
    /\ r_batches = <<>> => seq = <<>>
    /\ r_batches # <<>> =>
          /\ seq # <<>>
          /\ seq[Len(seq)].n = completed
          /\ seq[Len(seq)].total = Len(r_batches)
          /\ seq[Len(seq)].round = IF r_pc = "enter" THEN reduce_round - 1
                                   ELSE reduce_round
    /\ (pc = "done" /\ strategy = "mapreduce") => reduce_q = <<>>
    /\ \A i \in 1..Len(events) :
          IsReducing(events[i]) => \A j \in 1..i : ~IsTerminal(events[j])

\* a reached case of C20: two rounds of "reducing" events were relayed, and
\* the run ended with its report after them
C20_Witness ==
    /\ pc = "done"
    /\ events[Len(events)].stage = "report"
    /\ \E i \in EventsOfStage("reducing") : events[i].round = 2 /\ events[i].n = 1
    /\ \E i \in EventsOfStage("reducing") : events[i].round = 1 /\ events[i].n = 2
    /\ reduce_q = <<>>

-----------------------------------------------------------------------------
\* Claims about the relay protocol, the progress events, the calls made and
\* the budgets (Spec).

SentinelsQueued == {i \in 1..Len(reduce_q) : reduce_q[i] = Sentinel}

\* C21: whether the reduce thread succeeds or raises, it puts the sentinel
\* on the queue exactly once, as the last item, with its result or its
\* error stored; so once the thread has ended the relay loop can always
\* take an item, and after the sentinel the generator has a result or an
\* error, never neither and never both.
C21_SentinelProtocol ==
    /\ Cardinality(SentinelsQueued) <= 1
    /\ \A i \in SentinelsQueued : i = Len(reduce_q)
    /\ SentinelsQueued # {} => (r_pc = "done" /\ pc = "relay")
    /\ r_pc # "done" => (reduce_result = -1 /\ reduce_error = "None")
    /\ r_pc = "done" =>
          /\ (reduce_result # -1) <=> (reduce_error = "None")
          /\ pc \in {"relay", "done"}
          /\ pc = "relay" =>
                /\ SentinelsQueued # {}
                /\ ENABLED (RelayEvent \/ RelaySentinel)
          /\ pc = "done" =>
                /\ reduce_q = <<>>
                /\ LET last == events[Len(events)] IN
                   IF reduce_error = "None"
                   THEN last.stage = "report" /\ last.extra = reduce_result
                   ELSE last.stage = "error" /\ last.err = reduce_error

\* a reached case of C21: the thread ended with an error while events of
\* its round were still queued; the sentinel is behind them
C21_Witness ==
    /\ r_pc = "done"
    /\ pc = "relay"
    /\ reduce_error # "None"
    /\ Len(reduce_q) >= 2
    /\ reduce_q[Len(reduce_q)] = Sentinel
    /\ reduce_q[1].stage = "reducing"

\* C22: forwarding a "reducing" event never waits for the round or for the
\* reduce stage to finish: whenever the generator is in its relay loop and
\* the queue holds an item, the loop can take it.
C22_RelayNeverWaits ==
    (pc = "relay" /\ reduce_q # <<>>) => ENABLED (RelayEvent \/ RelaySentinel)

\* a reached case of C22: the event of a completed batch of the current
\* round has been yielded while another batch of the round is in flight
C22_Witness ==
    /\ pc = "relay"
    /\ r_pc = "round"
    /\ \E i \in 1..Len(reduce_futures) : reduce_futures[i].st = "running"
    /\ \E j \in EventsOfStage("reducing") :
          events[j].round = reduce_round /\ events[j].n >= 1

IsMapping(ev) == ev.stage = "mapping"
MappingSeq == SelectSeq(events, IsMapping)
EarlierOfRound(seq, j) == Cardinality({h \in 1..(j - 1) : seq[h].round = seq[j].round})
RoundEvents(seq, r) == {j \in 1..Len(seq) : seq[j].round = r}

\* C23: on the map-reduce path the "mapping" events are the announcing
\* event with chunk = 0, then one per collected chunk with the counter 1, 2,
\* ... (N of them once the map stage succeeded); the "reducing" events of a
\* round are its round-start event (batch = 0, the round's number, its
\* number of input summaries and of batches B), then one per collected batch
\* with the counter 1, 2, ... (B of them once the round succeeded), all with
\* the round's number.
C23_ProgressCounters ==
    strategy = "mapreduce" =>
        LET ms  == MappingSeq
            seq == ReducingSeq IN
        /\ \A k \in 1..Len(ms) : ms[k].n = k - 1 /\ ms[k].total = Len(m_chunks)
        /\ pc # "m_chunking" => Len(ms) = map_completed + 1
        /\ r_pc # "off" => Len(ms) = Len(m_chunks) + 1
        /\ \A j \in 1..Len(seq) :
              /\ seq[j].n = EarlierOfRound(seq, j)
              /\ seq[j].n <= seq[j].total
              /\ seq[j].round \in 1..reduce_round
              /\ j > 1 => seq[j - 1].round <= seq[j].round
              /\ (seq[j].n = 0 /\ seq[j].round = 1) => seq[j].extra = Len(m_chunks)
              /\ (seq[j].n = 0 /\ seq[j].round > 1) =>
                    /\ seq[j - 1].n = seq[j - 1].total
                    /\ seq[j].extra = seq[j - 1].total
              /\ seq[j].n > 0 => seq[j].total = seq[j - 1].total
        /\ \A r \in 1..(reduce_round - 1) :
              \E j \in RoundEvents(seq, r) : seq[j].n = seq[j].total
        /\ (r_pc \notin {"off", "enter"} /\ r_batches # <<>>) =>
              /\ Cardinality(RoundEvents(seq, reduce_round)) = completed + 1
              /\ \A j \in RoundEvents(seq, reduce_round) :
                    /\ seq[j].total = Len(r_batches)
                    /\ seq[j].n = 0 => seq[j].extra = Len(r_summaries)
              /\ (as_completed_exhausted(reduce_futures, reduce_taken) /\ ~ReduceFailed)
                    => completed = Len(r_batches)

\* a reached case of C23: three chunks collected and two reduce rounds
\* completed, the run ended with its report
C23_Witness ==
    /\ pc = "done"
    /\ events[Len(events)].stage = "report"
    /\ Len(m_chunks) = 3
    /\ \E i \in EventsOfStage("mapping") : events[i].n = 3
    /\ \E i \in EventsOfStage("reducing") :
          events[i].round = 1 /\ events[i].n = events[i].total /\ events[i].total >= 2
    /\ \E i \in EventsOfStage("reducing") : events[i].round = 2 /\ events[i].n = 1

\* C24: a run that ends with an "error" event leaves the conversation
\* history and the corpus reference as they were when the run started (here:
\* those of a new agent), no ask having touched them.
C24_ErrorLeavesSession ==
    (/\ pc = "done"
     /\ events[Len(events)].stage = "error"
     /\ CallsOfKind("ask") = {})
        => /\ conversation_history = <<>>
           /\ scan_result = 0
           /\ project_path = 0

PipelineCalls(reqs) ==
    {call \in reqs : call.kind \in {"map", "reduce", "synthesis", "repeat"}}
\* the number of batches of round r, as its round-start event announced it
RoundBatches(r) ==
    IF \E i \in EventsOfStage("reducing") : events[i].round = r /\ events[i].n = 0
    THEN events[CHOOSE i \in EventsOfStage("reducing") :
                    events[i].round = r /\ events[i].n = 0].total
    ELSE 0

\* C25: in a map-reduce run that ended with its report the backend was
\* called exactly once per chunk, once per batch of every round and once for
\* the synthesis; no call was repeated and none was refused: the number of
\* calls is chunks + sum of the rounds' batch counts + 1.
C25_CallsExactlyOnce ==
    (/\ pc = "done"
     /\ strategy = "mapreduce"
     /\ events[Len(events)].stage = "report")
        => /\ PipelineCalls(rejected) = {}
           /\ \A call \in requests : call.kind # "repeat"
           /\ {call.unit : call \in {x \in requests : x.kind = "map"}} = 1..Len(m_chunks)
           /\ Cardinality({x \in requests : x.kind = "map"}) = Len(m_chunks)
           /\ \A call \in requests : call.kind = "reduce" => call.round \in 1..reduce_round
           /\ \A r \in 1..reduce_round :
                 LET made == {x \in requests : x.kind = "reduce" /\ x.round = r} IN
                 /\ {call.unit : call \in made} = 1..RoundBatches(r)
                 /\ Cardinality(made) = RoundBatches(r)
           /\ Cardinality({x \in requests : x.kind = "synthesis"}) = 1
           /\ Cardinality(PipelineCalls(requests)) =
                 Len(m_chunks)
                   + Cardinality({i \in EventsOfStage("reducing") : events[i].n >= 1})
                   + 1

\* a reached case of C25: three chunks, a first round of several batches, a
\* second round, the synthesis, and the report
C25_Witness ==
    /\ pc = "done"
    /\ strategy = "mapreduce"
    /\ events[Len(events)].stage = "report"
    /\ Len(m_chunks) = 3
    /\ reduce_round = 2
    /\ RoundBatches(1) >= 2
    /\ Cardinality(PipelineCalls(requests)) >= 7

\* C26: every reduce round starts with at least one summary and no empty
\* slot; the synthesis is called at most once, and only with the single
\* summary the reduce returned, which covers every chunk.
C26_ReduceInputs ==
    strategy = "mapreduce" =>
        /\ r_pc \in {"enter", "round", "r_abort"} =>
              /\ Len(r_summaries) >= 1
              /\ \A i \in 1..Len(r_summaries) :
                    r_summaries[i] # NoSummary /\ r_summaries[i].len > 0
        /\ Cardinality(CallsOfKind("synthesis")) <= 1
        /\ \A call \in Calls : call.kind # "repeat"
        /\ (r_pc \in {"synth", "synth_wait"} \/ CallsOfKind("synthesis") # {}) =>
              /\ consolidated # NoSummary
              /\ consolidated.src = 1..Len(m_chunks)
              /\ \/ Len(r_summaries) = 1 /\ consolidated = r_summaries[1]
                 \/ /\ Len(intermediate) = 1
                    /\ consolidated = intermediate[1]
                    /\ AllDone(reduce_futures)

\* a reached case of C26: a round consolidated several summaries into one
\* and the synthesis was then called with it
C26_Witness ==
    /\ Len(r_summaries) >= 2
    /\ Len(intermediate) = 1
    /\ consolidated = intermediate[1]
    /\ \E call \in requests : call.kind = "synthesis"

\* C27: the overhead term of the map budget and of the reduce budget is
\* never smaller than the estimate of the prompt actually sent, rendered
\* with the project's path and tree and an empty payload.
C27_OverheadCoversPrompt ==
    strategy = "mapreduce" =>
        LET c == project_dir IN
        /\ \A k \in 1..Len(m_chunks) :
              map_prompt_overhead(c) >=
                  estimate_tokens(SYSTEM_PROMPT_LEN)
                    + estimate_tokens(map_prompt_len(c, k, Len(m_chunks), 0))
        /\ reduce_overhead >=
              estimate_tokens(SYSTEM_PROMPT_LEN)
                + estimate_tokens(REDUCE_BATCH_PROMPT_LEN + Corpora[c].path + Corpora[c].tree)

\* C28: the prompt _reduce_batch builds for every emitted batch has an
\* estimate <= MODEL_CONTEXT_LIMIT: the pre-flight guard never refuses a
\* call of a reduce round.
C28_ReduceNeverRefused ==
    \A call \in rejected : call.kind # "reduce"

\* the floor of the chunk budget is active
FloorActive(c) ==
    map_prompt_overhead(c) + CHUNK_SAFETY_MARGIN + 1000 > MODEL_CONTEXT_LIMIT

\* C29: the chunk budget is max(1000, MODEL_CONTEXT_LIMIT - overhead of the
\* map prompt with the real path and tree - CHUNK_SAFETY_MARGIN), always >=
\* 1000; when the floor is not active the prompt of every chunk has a
\* combined estimate <= MODEL_CONTEXT_LIMIT and no map call is refused.
C29_ChunkBudget ==
    strategy = "mapreduce" =>
        LET c == project_dir
            budget == dynamic_chunk_budget(c)
            overhead == estimate_tokens(SYSTEM_PROMPT_LEN)
                          + estimate_tokens(MAP_CHUNK_PROMPT_LEN + 2
                                            + Corpora[c].path + Corpora[c].tree) IN
        /\ budget = Max(1000, 131072 - overhead - 8000)
        /\ budget >= 1000
        /\ \A k \in 1..Len(m_chunks) : estimate_tokens(m_chunks[k]) <= budget
        /\ ~FloorActive(c) =>
              /\ \A k \in 1..Len(m_chunks) :
                    StageEstimate(map_prompt_len(c, k, Len(m_chunks), m_chunks[k]))
                        <= MODEL_CONTEXT_LIMIT
              /\ \A call \in CallsOfKind("map") :
                    call \in requests /\ call.est <= MODEL_CONTEXT_LIMIT

\* a reached case of C29: a chunk of exactly the budget (a piece of a
\* hard-split line) was sent to the backend, the floor not being active
C29_Witness ==
    /\ strategy = "mapreduce"
    /\ ~FloorActive(project_dir)
    /\ Len(m_chunks) >= 2
    /\ m_chunks[1] = dynamic_chunk_budget(project_dir) * CHARS_PER_TOKEN
    /\ \E call \in requests : call.kind = "map" /\ call.unit = 1

\* C30: when a call of the map stage or of a reduce round has failed, the
\* "error" event that ends the run names a failing unit: the chunk number
\* for a map failure, the batch number for a reduce failure.
C30_ErrorNamesUnit ==
    (pc = "done" /\ (MapFailed \/ ReduceFailed)) =>
        LET last == events[Len(events)] IN
        /\ last.stage = "error"
        /\ MapFailed =>
              \E i \in 1..Len(map_futures) : map_futures[i].st = "failed" /\ last.n = i
        /\ ReduceFailed =>
              \E i \in 1..Len(reduce_futures) :
                  reduce_futures[i].st = "failed" /\ last.n = i

-----------------------------------------------------------------------------
\* Claims about the chunker (SpecChunk) and the batcher (SpecBatch).

\* C5: concatenating the chunks chunk_text(T, B) returns, in order, gives
\* exactly T, also when lines longer than the budget are hard-split.
C5_ConcatReconstructs ==
    c_pc = "chunked" => Flatten(c_chunks) = c_text

\* a reached case of C5: a line longer than the budget was hard-split into
\* several chunks, after an earlier line had been flushed
C5_Witness ==
    /\ c_pc = "chunked"
    /\ Len(c_chunks) >= 3
    /\ \E i \in 1..Len(c_text) :
          /\ c_text[i] = "\n"
          /\ LineEnd(c_text, i + 1) - i > c_budget * CHARS_PER_TOKEN
    /\ Flatten(c_chunks) = c_text

\* C6: every chunk chunk_text(T, B) returns has estimate_tokens(chunk) <= B,
\* the pieces of a hard-split line included.
C6_ChunkWithinBudget ==
    c_pc = "chunked" =>
        \A k \in 1..Len(c_chunks) : estimate_tokens(Len(c_chunks[k])) <= c_budget

\* a reached case of C6: the text did not fit the budget, and a line that
\* alone exceeds the budget was split
C6_Witness ==
    /\ c_pc = "chunked"
    /\ estimate_tokens(Len(c_text)) > c_budget
    /\ \E i \in 1..Len(splitlines(c_text)) :
          estimate_tokens(Len(splitlines(c_text)[i])) > c_budget
    /\ \A k \in 1..Len(c_chunks) : estimate_tokens(Len(c_chunks[k])) <= c_budget

\* C14: every chunk chunk_text(T, B) returns is a non-empty string, for the
\* empty text and for texts that fit the budget too.
C14_ChunksNonEmpty ==
    c_pc = "chunked" => \A k \in 1..Len(c_chunks) : c_chunks[k] # <<>>

\* C7: every batch _build_token_aware_batches emits is non-empty, holds at
\* most REDUCE_BATCH_MAX summaries and, unless it is a single summary, has a
\* sum of per-summary estimates <= available; a summary that alone exceeds
\* the available size is in a batch by itself, and no summary is dropped.
C7_BatchesBounded ==
    b_pc = "batched" =>
        /\ \A k \in 1..Len(b_batches) :
              /\ Len(b_batches[k]) >= 1
              /\ Len(b_batches[k]) <= REDUCE_BATCH_MAX
              /\ Len(b_batches[k]) = 1 \/ BatchTokens(b_batches[k]) <= reduce_available
        /\ \A i \in 1..Len(b_summaries) :
              \E k \in 1..Len(b_batches) :
                 /\ \E j \in 1..Len(b_batches[k]) : b_batches[k][j] = b_summaries[i]
                 /\ estimate_tokens(b_summaries[i].len) > reduce_available
                        => Len(b_batches[k]) = 1

\* a reached case of C7: a batch closed by the item cap, a batch closed by
\* the token budget, and an oversized summary isolated, in one list
C7_Witness ==
    /\ b_pc = "batched"
    /\ \E k \in 1..Len(b_batches) : Len(b_batches[k]) = REDUCE_BATCH_MAX
    /\ \E k \in 1..Len(b_batches) :
          /\ Len(b_batches[k]) = 1
          /\ BatchTokens(b_batches[k]) > reduce_available
    /\ \E k \in 1..Len(b_batches) :
          /\ Len(b_batches[k]) = 2
          /\ BatchTokens(b_batches[k]) = reduce_available

\* C31: _build_token_aware_batches partitions its input: the batches
\* concatenated in order are exactly the input list, there are at most as
\* many batches as summaries, and at least one when the input is non-empty.
C31_BatchesPartition ==
    b_pc = "batched" =>
        /\ Flatten(b_batches) = b_summaries
        /\ Len(b_batches) <= Len(b_summaries)
        /\ b_summaries # <<>> => Len(b_batches) >= 1

\* a reached case of C31: a list cut into several batches of different
\* sizes, fewer batches than summaries, the last batch made by the final flush
C31_Witness ==
    /\ b_pc = "batched"
    /\ Len(b_batches) >= 3
    /\ Len(b_batches) < Len(b_summaries)
    /\ Len(b_batches[1]) # Len(b_batches[Len(b_batches)])
    /\ Flatten(b_batches) = b_summaries

-----------------------------------------------------------------------------
\* Claims about ask and the session during and after a run (Spec).

\* C34: a failed ask (the backend fails, or the pre-flight guard refuses
\* the history) leaves the conversation history exactly as it was before
\* the call: the question is not left appended.
C34_FailedAskRestoresHistory ==
    [][(/\ asks' = asks + 1
        /\ ask_result' \in {"backend", "too_large"})
          => conversation_history' = conversation_history]_vars

\* C35: an ask that arrives while the run is in progress (before its
\* terminal event) is rejected with the no-project-analyzed error and
\* appends nothing to the history, on both paths.
C35_AskDuringRunRejected ==
    [][(/\ asks' = asks + 1
        /\ pc \notin {"idle", "done"})
          => /\ ask_result' = "no_project"
             /\ conversation_history' = conversation_history]_vars

\* C36: whenever routing selected the single-call path, the single backend
\* call passes the pre-flight guard: the estimate _call_llm computes for
\* the system and user messages is <= MODEL_CONTEXT_LIMIT, the request is
\* sent and the run does not end with the payload-too-large error.  The
\* step is the call of _call_llm on the history the run has set, with no
\* question of a concurrent ask appended to it.
C36_SingleCallPassesGuard ==
    [][(/\ pc = "s_mapping"
        /\ pc' # "s_mapping"
        /\ \A i \in 1..Len(conversation_history) :
              conversation_history[i].kind # "question")
          => /\ single_call_route(total_tokens(project_dir))
             /\ StageEstimate(full_user_prompt_len(project_dir)) <= MODEL_CONTEXT_LIMIT
             /\ pc' = "s_wait"
             /\ rejected' = rejected
             /\ events' = events
             /\ Call("single", 0, 1, StageEstimate(full_user_prompt_len(project_dir)))
                   \in requests']_vars

\* a reached case of C36: the project whose total is exactly
\* MAX_PROMPT_TOKENS went the single-call way and its request was sent
C36_Witness ==
    /\ strategy = "single"
    /\ total_tokens(project_dir) = MAX_PROMPT_TOKENS
    /\ pc = "s_wait"
    /\ rejected = {}
    /\ \E call \in requests :
          /\ call.kind = "single"
          /\ call.est > MAX_PROMPT_TOKENS
          /\ call.est <= MODEL_CONTEXT_LIMIT

-----------------------------------------------------------------------------
\* Claims about the order of the events of a run (Spec).

\* C37: the stages appear in pipeline order: exactly one "chunking" event
\* comes before every "mapping" event, every "mapping" event comes before
\* every "reducing" event, the round numbers of the "reducing" events never
\* decrease, a "report" event is preceded by at least one "chunking" and
\* one "mapping" event; an "error" event may follow any prefix.
C37_PipelineOrder ==
    /\ Cardinality(EventsOfStage("chunking")) <= 1
    /\ \A i \in EventsOfStage("mapping") :
          /\ \E j \in EventsOfStage("chunking") : j < i
          /\ \A j \in EventsOfStage("chunking") : j < i
    /\ \A i \in EventsOfStage("reducing") :
          /\ \E j \in EventsOfStage("mapping") : j < i
          /\ \A j \in EventsOfStage("mapping") \cup EventsOfStage("chunking") : j < i
          /\ \A j \in EventsOfStage("reducing") :
                j < i => events[j].round <= events[i].round
    /\ \A i \in EventsOfStage("report") :
          /\ \E j \in EventsOfStage("chunking") : j < i
          /\ \E j \in EventsOfStage("mapping") : j < i
          /\ \A j \in 1..Len(events) : j # i => j < i
    /\ \A i \in EventsOfStage("error") : i = Len(events)

\* a reached case of C37: a finished map-reduce run with all five kinds of
\* steps in its events: chunking, mappings, two rounds of reducing, report
C37_Witness ==
    /\ pc = "done"
    /\ events[1].stage = "chunking"
    /\ Cardinality(EventsOfStage("mapping")) >= 3
    /\ \E i, j \in EventsOfStage("reducing") :
          i < j /\ events[i].round = 1 /\ events[j].round = 2
    /\ events[Len(events)].stage = "report"

-----------------------------------------------------------------------------
\* Claims about truncate_to_token_limit (SpecTruncate).

\* C40: for every text, every max_tokens >= 0 and every notice, the text
\* truncate_to_token_limit returns has an estimated token count of at most
\* max_tokens, and a text already within the limit is returned unchanged.
C40_TruncatedWithinLimit ==
    t_pc = "truncated" =>
        /\ estimate_tokens(Len(t_result)) <= t_max_tokens
        /\ estimate_tokens(Len(t_text)) <= t_max_tokens => t_result = t_text

-----------------------------------------------------------------------------
\* Claims about the worker pools (SpecPool).

\* C32: at every moment of the map stage and of each reduce round the
\* backend calls in flight for the stage are at most min(units, 8); the
\* calls of the map stage, of a reduce round and the synthesis call never
\* overlap in time.
C32_PoolBound ==
    /\ Cardinality(InFlight(map_futures)) <= Min(Len(map_futures), 8)
    /\ Cardinality(InFlight(reduce_futures)) <= Min(Len(reduce_futures), 8)
    /\ InFlight(map_futures) # {} =>
          /\ InFlight(reduce_futures) = {}
          /\ r_pc = "off"
    /\ InFlight(reduce_futures) # {} =>
          /\ InFlight(map_futures) = {}
          /\ r_pc \in {"round", "r_abort"}
    /\ r_pc = "synth_wait" =>
          /\ InFlight(map_futures) = {}
          /\ InFlight(reduce_futures) = {}

\* a reached case of C32: eight map calls in flight with a ninth chunk
\* waiting for a worker
C32_Witness ==
    /\ pc = "m_mapping"
    /\ Len(map_futures) > 8
    /\ Cardinality(InFlight(map_futures)) = 8
    /\ \E i \in 1..Len(map_futures) : map_futures[i].st = "pending"

-----------------------------------------------------------------------------
\* Claims about the SSE stream of /api/analyze (Spec).

SseTerminal(out) == {i \in 1..Len(out) : out[i] \in {"report", "error"}}

\* C39: the SSE stream of one /api/analyze request ends with exactly one
\* terminal SSE event ("report" or "error"), nothing follows it, and it is
\* "report" if and only if the agent's event stream ended with a "report"
\* event, "error" otherwise.
C39_SseTerminal ==
    LET out == generate(events, pc = "done") IN
    /\ Cardinality(SseTerminal(out)) <= 1
    /\ \A i \in SseTerminal(out) : i = Len(out)
    /\ pc = "done" =>
          /\ SseTerminal(out) = {Len(out)}
          /\ out[Len(out)] = "report" <=> events[Len(events)].stage = "report"

-----------------------------------------------------------------------------
\* Claims about the session registry and the clone directories (SpecWeb).

\* where a handler reads or writes _sessions: the membership test, the
\* insert and the read of _get_or_create_session, the update of repo_dir,
\* the lookup of /api/ask and the pop of _clear_session
RegistryAccess ==
    {"goc_check", "goc_insert", "goc_return", "rec_write", "ask_lookup", "clear_pop"}

\* the handlers that have their record from _get_or_create_session
HoldsRecord(t) == handlers[t].req = "analyze" /\ handlers[t].record # 0

\* C33: every read or write of the session registry happens while the
\* registry lock is held by the accessing thread, so concurrent
\* get-or-create requests for one session id create exactly one record and
\* obtain that same record.
C33_RegistryUnderLock ==
    /\ \A t \in WebThreads :
          handlers[t].pc \in RegistryAccess => sessions_lock = t
    /\ sessions_lock # 0 => handlers[sessions_lock].pc \in RegistryAccess
    /\ \A sid \in KnownIds :
          /\ Cardinality({r \in sessions : r.sid = sid}) <= 1
          /\ Cardinality({a \in 1..Len(agents) :
                            agents[a].sid = sid /\ ~agents[a].popped})
                = Cardinality({r \in sessions : r.sid = sid})
    /\ \A r \in sessions :
          /\ r.agent \in 1..Len(agents)
          /\ agents[r.agent].sid = r.sid
          /\ ~agents[r.agent].popped
    /\ \A t \in WebThreads :
          (HoldsRecord(t) /\ ~agents[handlers[t].record].popped) =>
              /\ HasSession(sessions, handlers[t].sid)
              /\ GetSession(sessions, handlers[t].sid).agent = handlers[t].record
    /\ \A t1, t2 \in WebThreads :
          (/\ HoldsRecord(t1) /\ HoldsRecord(t2)
           /\ handlers[t1].sid = handlers[t2].sid
           /\ ~agents[handlers[t1].record].popped
           /\ ~agents[handlers[t2].record].popped)
             => handlers[t1].record = handlers[t2].record

\* a reached case of C33: two analyses of one new session id ran their
\* _get_or_create_session concurrently (the second was waiting for the lock
\* while the first inserted), one agent was constructed and both hold it
C33_Witness ==
    /\ Len(agents) = 1
    /\ \A t \in WebThreads :
          /\ handlers[t].req = "analyze"
          /\ handlers[t].sid = 1
          /\ handlers[t].pc = "reset"
          /\ handlers[t].record = 1
    /\ web_requests = 2

\* the directory a handler is analysing: cloned, not yet scanned
Analysing(h, d) ==
    /\ h.req = "analyze"
    /\ h.pc \in {"goc_lock", "goc_check", "goc_insert", "goc_return", "reset",
                 "rec_lock", "rec_write", "scan"}
    /\ h.repo_dir = d

\* C38: clearing or restarting one session never deletes a repository
\* directory that another live session has recorded as its repo_dir or is
\* analysing, also when both sessions analysed the same URL and so have
\* the same cached clone directory.
C38_ClearKeepsLiveDirs ==
    [][\A t \in WebThreads :
          (At(t, "clear_rm") /\ handlers'[t] # handlers[t]) =>
              \A d \in clone_dirs \ clone_dirs' :
                 /\ \A r \in sessions :
                       r.sid # handlers[t].sid => r.repo_dir # d
                 /\ \A u \in WebThreads :
                       handlers[u].sid # handlers[t].sid
                           => ~Analysing(handlers[u], d)]_vars

====
